---------------------------- MODULE Spec2Model ----------------------------
(***************************************************************************)
(* State-machine model of the appendix generator web application.          *)
(*                                                                         *)
(*   Spec        the wizard session: the shared AppState context, the      *)
(*               local state of the step component that is mounted, the    *)
(*               asynchronous calls that are in flight, project load and   *)
(*               reset.                                                    *)
(*   SpecCancel  the same session with the AI call boundary (callGemini)   *)
(*               exercised with an AbortSignal.                            *)
(*   SpecProxy   one 'generate' request handled by the /api/gemini proxy   *)
(*               followed by callGemini's reading of the proxy's answer.   *)
(*                                                                         *)
(* JavaScript values are modelled by what the code does with them: null    *)
(* and undefined are distinct sentinels, `||` and `!` test falsiness, a    *)
(* component's useState values are re-initialised when it is mounted and   *)
(* the setters of an unmounted instance do nothing.                        *)
(***************************************************************************)
EXTENDS Integers, Sequences, FiniteSets, Bags, TLC

(***************************************************************************)
(* Bounds of the model.                                                    *)
(***************************************************************************)
\* Asynchronous calls that may be in flight together.
MaxInFlight == 2

(***************************************************************************)
(* JavaScript values.                                                      *)
(***************************************************************************)
NULL == "<null>"
UNDEF == "<undefined>"

\* Truthiness of a string-or-null value (`if (x)`, `!x`, `x || d`).
Truthy(s) == s \notin {NULL, UNDEF, ""}

\* A number-or-string-or-absent value as JSON.parse delivers it.
JNum(n) == [t |-> "num", n |-> n, s |-> ""]
JStr(s) == [t |-> "str", n |-> 0, s |-> s]
JAbsent == [t |-> "absent", n |-> 0, s |-> ""]

JFalsy(v) == \/ v.t = "absent"
             \/ v.t = "num" /\ v.n = 0
             \/ v.t = "str" /\ v.s = ""

\* a || d
JOr(v, d) == IF JFalsy(v) THEN d ELSE v

\* planningData: null, undefined, or an object of which the model keeps the
\* group_id's of its `chapters`.
NullPlan == [t |-> "null", chapters |-> {}]
UndefPlan == [t |-> "undefined", chapters |-> {}]
Plan(S) == [t |-> "plan", chapters |-> S]
PlanTruthy(p) == p.t = "plan"
\* planningData.chapters?.map(...): the groups the UI renders.
PlanGroups(p) == IF PlanTruthy(p) THEN p.chapters ELSE {}

EmptyMap == [k \in {} |-> ""]

(***************************************************************************)
(* Input domains.                                                          *)
(***************************************************************************)
Groups == {"GROUP_A", "STANDALONE_1"}
InputKeys == {"k1"}
Books == {"b1", "b2"}
FileNameOf == [b \in Books |-> IF b = "b1" THEN "b1.pdf" ELSE "b2.pdf"]
InfoOf == [b \in Books |-> IF b = "b1" THEN "info1" ELSE "info2"]
AITexts == {"t1"}
AIErrors == {"503 unavailable"}
AbortError == "AbortError"
ChangeRequests == {"", "merge"}
WordCountOptions == {"1500-2000", "2500-3500", "4000-5000"}
DefaultForecastYears == 15
MinForecastYears == 5
MaxForecastYears == 30
ForecastChoices == {DefaultForecastYears}
MaxFileSizeMB == 100
WordCountChoices == {"2500-3500"}
DefaultWordCountOption == "2500-3500"

(***************************************************************************)
(* The text of an AI answer to a planning prompt, as a sequence of tokens: *)
(* a code fence, prose without braces, white space, or the text of one     *)
(* JSON value.                                                             *)
(***************************************************************************)
TFenceJson == [k |-> "fence_json", v |-> NullPlan]
TFence == [k |-> "fence", v |-> NullPlan]
TText == [k |-> "text", v |-> NullPlan]
TWs == [k |-> "ws", v |-> NullPlan]
TJson(p) == [k |-> "json", v |-> p]

AIPlans == {Plan({"GROUP_A"}), Plan(Groups)}

PlanResponses ==
    {<<TJson(p)>> : p \in AIPlans}
    \cup {<<TFenceJson, TWs, TJson(Plan(Groups)), TWs, TFence>>,
          <<TText, TJson(Plan(Groups)), TText>>,
          <<TFence, TJson(Plan({"GROUP_A"})), TFence, TWs>>,
          <<TJson(Plan({})), TText, TJson(Plan(Groups))>>,
          <<TText>>,
          <<TJson(NullPlan)>>}

RECURSIVE TrimLeft(_)
TrimLeft(s) == IF s # <<>> /\ Head(s).k = "ws" THEN TrimLeft(Tail(s)) ELSE s

RECURSIVE TrimRight(_)
TrimRight(s) ==
    IF s # <<>> /\ s[Len(s)].k = "ws" THEN TrimRight(SubSeq(s, 1, Len(s) - 1)) ELSE s

Trim(s) == TrimRight(TrimLeft(s))

IsObjectText(tok) == tok.k = "json" /\ tok.v.t = "plan"

StartsWith(s, kind) == s # <<>> /\ Head(s).k = kind
EndsWith(s, kind) == s # <<>> /\ s[Len(s)].k = kind

\* jsonStr.startsWith('```json') ? slice(7) : startsWith('```') ? slice(3)
DropLeadingFence(s) ==
    IF StartsWith(s, "fence_json") THEN Tail(s)
    ELSE IF StartsWith(s, "fence") THEN Tail(s)
    ELSE s

\* jsonStr.endsWith('```') ? slice(0, -3)
DropTrailingFence(s) == IF EndsWith(s, "fence") THEN SubSeq(s, 1, Len(s) - 1) ELSE s

StripFences(response) == Trim(DropTrailingFence(DropLeadingFence(Trim(response))))

ParseOk(value) == [ok |-> TRUE, value |-> value, error |-> ""]
ParseThrow(msg) == [ok |-> FALSE, value |-> NullPlan, error |-> msg]

\* JSON.parse of a token sequence: one JSON value, white space around it allowed.
JsonValue(t) == IF Len(t) = 1 /\ t[1].k = "json" THEN ParseOk(t[1].v) ELSE ParseThrow("SyntaxError")
JsonParse(s) == JsonValue(Trim(s))

\* The tokens of s that hold an object text.
Braces(s) == {i \in 1..Len(s) : IsObjectText(s[i])}

\* A match that ends with the first object text.
JsonMatchFirst(s) ==
    SubSeq(s, CHOOSE i \in Braces(s) : \A j \in Braces(s) : i <= j,
              CHOOSE i \in Braces(s) : \A j \in Braces(s) : i <= j)

\* jsonStr.match(/\{[\s\S]*\}/)[0]: from the first brace to the last one.
JsonMatch(s) ==
    SubSeq(s, CHOOSE i \in Braces(s) : \A j \in Braces(s) : i <= j,
              CHOOSE i \in Braces(s) : \A j \in Braces(s) : j <= i)

Rethrow(r, msg) == IF r.ok THEN r ELSE ParseThrow(msg)

ParseCleaned(jsonStr, strict) ==
    IF strict.ok THEN strict
    ELSE IF Braces(jsonStr) # {}
    THEN Rethrow(JsonParse(JsonMatch(jsonStr)), "Could not parse JSON response from AI")
    ELSE ParseThrow("Could not find valid JSON in response")

\* parseJsonResponse: [ok, value, error]; ok = FALSE is a throw.
ParseStripped(jsonStr) == ParseCleaned(jsonStr, JsonParse(jsonStr))
parseJsonResponse(response) == ParseStripped(StripFences(response))

(***************************************************************************)
(* State.                                                                  *)
(***************************************************************************)
VARIABLES
    \* AppState context
    currentStep, apiKey, apiKeyValid, detectedTier,
    bookContent, extractionInfo, fileName,
    planningData, isAnalyzing, generatedAppendices,
    forecastYears, wordCountOption,
    \* local state of the mounted step component
    inputKey, isValidating, isExtracting, isApplyingChanges, changeRequest,
    isGenerating, error,
    \* window.alert of the sidebar
    alertMsg,
    \* asynchronous calls in flight (a bag of call records)
    calls,
    \* the /api/gemini request being handled (SpecProxy)
    proxy,
    \* the library function being run on an input, with its locals
    \* (SpecTruncate, SpecBibliography, SpecExtract, SpecInline)
    probe,
    \* the File menu of the sidebar and the provider's lastSavedStateRef
    \* (SpecSidebar)
    sidebar

ctxVars == <<currentStep, apiKey, apiKeyValid, detectedTier, bookContent,
             extractionInfo, fileName, planningData, isAnalyzing,
             generatedAppendices, forecastYears, wordCountOption>>
localVars == <<inputKey, isValidating, isExtracting, isApplyingChanges,
               changeRequest, isGenerating, error>>
vars == <<ctxVars, localVars, alertMsg, calls, proxy, probe, sidebar>>

ProxyIdle == [pc |-> "idle"]
ProbeIdle == [fn |-> "idle", pc |-> "idle"]

\* useRef(null) of the provider, useState of Sidebar, the file input's picker,
\* the timer loadProjectData sets and the file handleSaveProject downloads.
\* An absent value is the empty sequence.
SidebarIdle ==
    [lastSavedState |-> <<>>, showConfirmDialog |-> FALSE, pendingAction |-> NULL,
     pendingFile |-> <<>>, picker |-> FALSE, timer |-> <<>>, download |-> <<>>]

(***************************************************************************)
(* Calls in flight.  A call record keeps what the handler's closure holds: *)
(* its argument (the key, the file, the group), the planningData it was    *)
(* started from, whether the component instance that started it is still   *)
(* mounted, and the AbortSignal handed to callGemini.                      *)
(***************************************************************************)
Call(kind, arg, from, sig) ==
    [kind |-> kind, arg |-> arg, from |-> from, mounted |-> TRUE, sig |-> sig]

InFlight == BagToSet(calls)
NumInFlight == BagCardinality(calls)
AddCall(c) == calls (+) SetToBag({c})
RemoveCall(c) == calls (-) SetToBag({c})

Orphan(c) == [c EXCEPT !.mounted = FALSE]
Adopt(c) == [c EXCEPT !.mounted = TRUE]

\* The bag after the mounted component is unmounted.
Unmounted(b) ==
    LET S == BagToSet(b)
        T == {Orphan(c) : c \in S}
    IN IF T = {} THEN EmptyBag
       ELSE [d \in T |-> (IF d \in S THEN b[d] ELSE 0)
                         + (IF Adopt(d) \in S THEN b[Adopt(d)] ELSE 0)]

(***************************************************************************)
(* Rendering.                                                              *)
(***************************************************************************)
\* Generate: <LoadingOverlay isOpen={isGenerating !== null} .../>
LoadingOverlayIsOpen == isGenerating # NULL

\* Generate returns the "complete the analysis step first" alert, and no
\* overlay, when planningData is falsy.
LoadingOverlayShown ==
    currentStep = 4 /\ PlanTruthy(planningData) /\ LoadingOverlayIsOpen

\* <Dialog open> without a close button is modal: while it is open the page
\* behind it takes no pointer or keyboard input.
DialogBlocks(open) == open

\* window.alert() holds the page until it is dismissed.
AlertOpen == alertMsg # NULL

\* The page takes input: no alert, no modal dialog, no file picker of the
\* hidden file input, and the zero-delay timer of a load has run.
UIFree ==
    /\ ~AlertOpen
    /\ ~DialogBlocks(LoadingOverlayShown)
    /\ ~DialogBlocks(sidebar.showConfirmDialog)
    /\ ~sidebar.picker
    /\ sidebar.timer = <<>>

canProceedToStep(step) ==
    CASE step = 1 -> TRUE
      [] step = 2 -> apiKeyValid
      [] step = 3 -> apiKeyValid /\ bookContent # NULL
      [] step = 4 -> apiKeyValid /\ bookContent # NULL /\ planningData # NullPlan
      [] OTHER -> FALSE

\* useState initial values of the step component mounted for `step`;
\* ApiSetup starts its input from the apiKey of the render that mounts it.
MountLocals(step, key) ==
    /\ inputKey' = IF step = 1 /\ Truthy(key) THEN key ELSE ""
    /\ isValidating' = FALSE
    /\ isExtracting' = FALSE
    /\ isApplyingChanges' = FALSE
    /\ changeRequest' = ""
    /\ isGenerating' = NULL
    /\ error' = NULL

\* setCurrentStep(step): another step unmounts the mounted component.
setCurrentStep(step, key) ==
    /\ currentStep' = step
    /\ IF step = currentStep
       THEN UNCHANGED localVars /\ calls' = calls
       ELSE MountLocals(step, key) /\ calls' = Unmounted(calls)

(***************************************************************************)
(* The AI call boundary.                                                   *)
(***************************************************************************)
Success(text) == [success |-> TRUE, text |-> text, error |-> ""]
Failure(msg, empty) == [success |-> FALSE, text |-> empty, error |-> msg]

\* A callGemini that does not hand its signal to fetch.
callGeminiWithoutSignal(c, answer, empty) ==
    IF ~answer.success
    THEN [ok |-> FALSE, text |-> empty,
          error |-> IF answer.error = "" THEN "Failed to call Gemini API"
                    ELSE answer.error]
    ELSE [ok |-> TRUE, text |-> answer.text, error |-> ""]

\* callGemini(apiKey, prompt, model, signal) for call c when the proxy
\* answers `answer`: fetch rejects once the signal is aborted, whatever
\* arrives later; a failure answer is thrown; a success returns its text.
callGemini(c, answer, empty) ==
    IF c.sig = "aborted"
    THEN [ok |-> FALSE, text |-> empty, error |-> AbortError]
    ELSE IF ~answer.success
    THEN [ok |-> FALSE, text |-> empty,
          error |-> IF answer.error = "" THEN "Failed to call Gemini API"
                    ELSE answer.error]
    ELSE [ok |-> TRUE, text |-> answer.text, error |-> ""]

PlanAnswers == {Success(r) : r \in PlanResponses} \cup {Failure(e, <<>>) : e \in AIErrors}
TextAnswers == {Success(t) : t \in AITexts} \cup {Failure(e, "") : e \in AIErrors}

(***************************************************************************)
(* Init.                                                                   *)
(***************************************************************************)
Init ==
    /\ currentStep = 1
    /\ apiKey = NULL
    /\ apiKeyValid = FALSE
    /\ detectedTier = NULL
    /\ bookContent = NULL
    /\ extractionInfo = NULL
    /\ fileName = NULL
    /\ planningData = NullPlan
    /\ isAnalyzing = FALSE
    /\ generatedAppendices = EmptyMap
    /\ forecastYears = JNum(DefaultForecastYears)
    /\ wordCountOption = JStr(DefaultWordCountOption)
    /\ inputKey = ""
    /\ isValidating = FALSE
    /\ isExtracting = FALSE
    /\ isApplyingChanges = FALSE
    /\ changeRequest = ""
    /\ isGenerating = NULL
    /\ error = NULL
    /\ alertMsg = NULL
    /\ calls = EmptyBag
    /\ proxy = ProxyIdle
    /\ probe = ProbeIdle
    /\ sidebar = SidebarIdle

(***************************************************************************)
(* Step 1: ApiSetup.                                                       *)
(***************************************************************************)
SetInputKey(k) ==
    /\ UIFree /\ currentStep = 1
    /\ k # inputKey
    /\ inputKey' = k
    /\ UNCHANGED <<ctxVars, isValidating, isExtracting, isApplyingChanges,
                   changeRequest, isGenerating, error, alertMsg, calls, proxy, probe, sidebar>>

\* The Validate button is disabled while validating; Enter in the input
\* calls the handler all the same.
handleValidate ==
    /\ UIFree /\ currentStep = 1
    /\ IF inputKey = ""
       THEN /\ error' = "Please enter an API key"
            /\ UNCHANGED <<isValidating, calls>>
       ELSE /\ NumInFlight < MaxInFlight
            /\ isValidating' = TRUE
            /\ error' = NULL
            /\ calls' = AddCall(Call("validate", inputKey, NullPlan, "none"))
    /\ UNCHANGED <<ctxVars, inputKey, isExtracting, isApplyingChanges,
                   changeRequest, isGenerating, alertMsg, proxy, probe, sidebar>>

ValidationResults ==
    {[success |-> TRUE, tier |-> t, threw |-> FALSE] : t \in {"paid", UNDEF}}
    \cup {[success |-> FALSE, tier |-> UNDEF, threw |-> FALSE],
          [success |-> FALSE, tier |-> UNDEF, threw |-> TRUE]}

ValidateDone(c, r) ==
    /\ c \in InFlight /\ c.kind = "validate"
    /\ IF r.success
       THEN /\ apiKey' = c.arg
            /\ apiKeyValid' = TRUE
            /\ detectedTier' = IF Truthy(r.tier) THEN r.tier ELSE "free"
       ELSE /\ apiKeyValid' = FALSE
            /\ UNCHANGED <<apiKey, detectedTier>>
    /\ IF c.mounted
       THEN /\ isValidating' = FALSE
            /\ error' = IF r.success THEN error
                        ELSE IF r.threw THEN "Validation failed"
                        ELSE "Invalid API key"
       ELSE UNCHANGED <<isValidating, error>>
    /\ calls' = RemoveCall(c)
    /\ UNCHANGED <<currentStep, bookContent, extractionInfo, fileName,
                   planningData, isAnalyzing, generatedAppendices, forecastYears,
                   wordCountOption, inputKey, isExtracting, isApplyingChanges,
                   changeRequest, isGenerating, alertMsg, proxy, probe, sidebar>>

handleContinueApi ==
    /\ UIFree /\ currentStep = 1
    /\ apiKeyValid
    /\ setCurrentStep(2, apiKey)
    /\ UNCHANGED <<apiKey, apiKeyValid, detectedTier, bookContent, extractionInfo,
                   fileName, planningData, isAnalyzing, generatedAppendices,
                   forecastYears, wordCountOption, alertMsg, proxy, probe, sidebar>>

(***************************************************************************)
(* Stepper.                                                                *)
(***************************************************************************)
handleStepClick(stepNumber) ==
    /\ UIFree
    /\ stepNumber # currentStep
    /\ canProceedToStep(stepNumber)
    /\ setCurrentStep(stepNumber, apiKey)
    /\ UNCHANGED <<apiKey, apiKeyValid, detectedTier, bookContent, extractionInfo,
                   fileName, planningData, isAnalyzing, generatedAppendices,
                   forecastYears, wordCountOption, alertMsg, proxy, probe, sidebar>>

\* String.prototype.toLowerCase, fragment by fragment
LowerOf(f) ==
    CASE f = "RESOURCE_EXHAUSTED" -> "resource_exhausted"
      [] f = "Quota" -> "quota"
      [] f = "Limit" -> "limit"
      [] f = "B1" -> "b1"
      [] f = ".PDF" -> ".pdf"
      [] OTHER -> f

ToLowerCase(text) == [i \in 1..Len(text) |-> LowerOf(text[i])]

(***************************************************************************)
(* Step 2: UploadBook.                                                     *)
(***************************************************************************)
\* The files dropped on the page: name (in pieces, the last one the
\* extension), size in bytes, and the book inside.
BytesPerMB == 1024 * 1024
UploadFiles ==
    {[name |-> <<"b1", ".pdf", ".txt">>, size |-> BytesPerMB, book |-> "b1"],
     [name |-> <<"B1", ".PDF">>, size |-> MaxFileSizeMB * BytesPerMB + 1, book |-> "b1"],
     [name |-> <<"b1", ".pdf">>, size |-> MaxFileSizeMB * BytesPerMB, book |-> "b1"],
     [name |-> <<"b1", ".pdf">>, size |-> 3 * BytesPerMB, book |-> "b1"]}

\* file.name.toLowerCase().endsWith('.pdf')
IsPdfName(name) == name # <<>> /\ ToLowerCase(name)[Len(name)] = ".pdf"

\* A size test on whole megabytes.
TooLargeInWholeMB(file) == file.size \div BytesPerMB > MaxFileSizeMB

\* fileSizeMB = file.size / (1024 * 1024); fileSizeMB > 100
TooLarge(file) == file.size > MaxFileSizeMB * BytesPerMB

\* What the session holds when an upload starts.
UploadStart ==
    [bookContent |-> bookContent, extractionInfo |-> extractionInfo, fileName |-> fileName]

handleFile(file) ==
    /\ UIFree /\ currentStep = 2
    /\ ~Truthy(bookContent)
    /\ ~isExtracting
    /\ IF ~IsPdfName(file.name)
       THEN /\ error' = "Please upload a PDF file"
            /\ UNCHANGED <<isExtracting, calls>>
       ELSE IF TooLarge(file)
       THEN /\ error' = "File is too large"
            /\ UNCHANGED <<isExtracting, calls>>
       ELSE /\ NumInFlight < MaxInFlight
            /\ isExtracting' = TRUE
            /\ error' = NULL
            /\ calls' = AddCall(Call("extract", file.book, UploadStart, "none"))
    /\ UNCHANGED <<ctxVars, inputKey, isValidating, isApplyingChanges,
                   changeRequest, isGenerating, alertMsg, proxy, probe, sidebar>>

\* An upload that stores the file name before the extraction has ended.
ExtractDoneNamesFile(c, ok) ==
    /\ c \in InFlight /\ c.kind = "extract"
    /\ IF ok
       THEN /\ bookContent' = c.arg
            /\ extractionInfo' = InfoOf[c.arg]
            /\ fileName' = FileNameOf[c.arg]
       ELSE /\ fileName' = FileNameOf[c.arg]
            /\ UNCHANGED <<bookContent, extractionInfo>>
    /\ IF c.mounted
       THEN /\ isExtracting' = FALSE
            /\ error' = IF ok THEN error ELSE "Failed to extract text from PDF"
       ELSE UNCHANGED <<isExtracting, error>>
    /\ calls' = RemoveCall(c)
    /\ UNCHANGED <<currentStep, apiKey, apiKeyValid, detectedTier, planningData,
                   isAnalyzing, generatedAppendices, forecastYears, wordCountOption,
                   inputKey, isValidating, isApplyingChanges, changeRequest,
                   isGenerating, alertMsg, proxy, probe, sidebar>>

\* The rest of handleFile, after await extractTextFromPdf(file, ...): the
\* try block on success, the catch block on a rejection, then finally.
ExtractDone(c, ok) ==
    /\ c \in InFlight /\ c.kind = "extract"
    /\ IF ok
       THEN /\ bookContent' = c.arg
            /\ extractionInfo' = InfoOf[c.arg]
            /\ fileName' = FileNameOf[c.arg]
       ELSE UNCHANGED <<bookContent, extractionInfo, fileName>>
    /\ IF c.mounted
       THEN /\ isExtracting' = FALSE
            /\ error' = IF ok THEN error ELSE "Failed to extract text from PDF"
       ELSE UNCHANGED <<isExtracting, error>>
    /\ calls' = RemoveCall(c)
    /\ UNCHANGED <<currentStep, apiKey, apiKeyValid, detectedTier, planningData,
                   isAnalyzing, generatedAppendices, forecastYears, wordCountOption,
                   inputKey, isValidating, isApplyingChanges, changeRequest,
                   isGenerating, alertMsg, proxy, probe, sidebar>>

handleContinueUpload ==
    /\ UIFree /\ currentStep = 2
    /\ Truthy(bookContent)
    /\ setCurrentStep(3, apiKey)
    /\ UNCHANGED <<apiKey, apiKeyValid, detectedTier, bookContent, extractionInfo,
                   fileName, planningData, isAnalyzing, generatedAppendices,
                   forecastYears, wordCountOption, alertMsg, proxy, probe, sidebar>>

handleReset ==
    /\ UIFree /\ currentStep = 2
    /\ Truthy(bookContent)
    /\ bookContent' = NULL
    /\ extractionInfo' = NULL
    /\ fileName' = NULL
    /\ error' = NULL
    /\ UNCHANGED <<currentStep, apiKey, apiKeyValid, detectedTier, planningData,
                   isAnalyzing, generatedAppendices, forecastYears, wordCountOption,
                   inputKey, isValidating, isExtracting, isApplyingChanges,
                   changeRequest, isGenerating, alertMsg, calls, proxy, probe, sidebar>>

(***************************************************************************)
(* Step 3: AnalyzeReview.                                                  *)
(***************************************************************************)
handleAnalyze(sig) ==
    /\ UIFree /\ currentStep = 3
    /\ ~isAnalyzing
    /\ Truthy(apiKey) /\ Truthy(bookContent)
    /\ NumInFlight < MaxInFlight
    /\ isAnalyzing' = TRUE
    /\ error' = NULL
    /\ calls' = AddCall(Call("analyze", "", planningData, sig))
    /\ UNCHANGED <<currentStep, apiKey, apiKeyValid, detectedTier, bookContent,
                   extractionInfo, fileName, planningData, generatedAppendices,
                   forecastYears, wordCountOption, inputKey, isValidating,
                   isExtracting, isApplyingChanges, changeRequest, isGenerating,
                   alertMsg, proxy, probe, sidebar>>

\* A parse that falls back to an empty plan instead of throwing.
ParsedBestEffort(p) ==
    [stored |-> TRUE, value |-> IF p.ok THEN p.value ELSE Plan({}), error |-> ""]

\* The try block shared by handleAnalyze and handleApplyChanges:
\*   response = await callGemini(...); data = parseJsonResponse(response)
\* [stored, value, error]: the plan handed to setPlanningData, or the
\* message of what was thrown.
Parsed(p) ==
    IF p.ok THEN [stored |-> TRUE, value |-> p.value, error |-> ""]
    ELSE [stored |-> FALSE, value |-> NullPlan, error |-> p.error]

Received(r) ==
    IF r.ok THEN Parsed(parseJsonResponse(r.text))
    ELSE [stored |-> FALSE, value |-> NullPlan, error |-> r.error]

PlanFromCall(c, answer) == Received(callGemini(c, answer, <<>>))

\* A continuation that clears the flag at the end of the try block only.
AnalyzeSettlesWithoutFinally(c, res) ==
    /\ planningData' = IF res.stored THEN res.value ELSE planningData
    /\ error' = IF c.mounted /\ ~res.stored THEN res.error ELSE error
    /\ isAnalyzing' = IF res.stored THEN FALSE ELSE isAnalyzing
    /\ calls' = RemoveCall(c)
    /\ UNCHANGED <<currentStep, apiKey, apiKeyValid, detectedTier, bookContent,
                   extractionInfo, fileName, generatedAppendices, forecastYears,
                   wordCountOption, inputKey, isValidating, isExtracting,
                   isApplyingChanges, changeRequest, isGenerating, alertMsg, proxy, probe, sidebar>>

\* The rest of handleAnalyze after the await: try, catch, finally.
AnalyzeSettles(c, res) ==
    /\ planningData' = IF res.stored THEN res.value ELSE planningData
    /\ error' = IF c.mounted /\ ~res.stored THEN res.error ELSE error
    /\ isAnalyzing' = FALSE
    /\ calls' = RemoveCall(c)
    /\ UNCHANGED <<currentStep, apiKey, apiKeyValid, detectedTier, bookContent,
                   extractionInfo, fileName, generatedAppendices, forecastYears,
                   wordCountOption, inputKey, isValidating, isExtracting,
                   isApplyingChanges, changeRequest, isGenerating, alertMsg, proxy, probe, sidebar>>

AnalyzeDone(c, answer) ==
    /\ c \in InFlight /\ c.kind = "analyze"
    /\ AnalyzeSettles(c, PlanFromCall(c, answer))

setChangeRequest(text) ==
    /\ UIFree /\ currentStep = 3
    /\ PlanTruthy(planningData)
    /\ text # changeRequest
    /\ changeRequest' = text
    /\ UNCHANGED <<ctxVars, inputKey, isValidating, isExtracting,
                   isApplyingChanges, isGenerating, error, alertMsg, calls, proxy, probe, sidebar>>

handleApplyChanges(sig) ==
    /\ UIFree /\ currentStep = 3
    /\ PlanTruthy(planningData)
    /\ ~isApplyingChanges /\ changeRequest # ""
    /\ Truthy(apiKey)
    /\ NumInFlight < MaxInFlight
    /\ isApplyingChanges' = TRUE
    /\ error' = NULL
    /\ calls' = AddCall(Call("apply", changeRequest, planningData, sig))
    /\ UNCHANGED <<ctxVars, inputKey, isValidating, isExtracting, changeRequest,
                   isGenerating, alertMsg, proxy, probe, sidebar>>

ApplySettles(c, res) ==
    /\ planningData' = IF res.stored THEN res.value ELSE planningData
    /\ IF c.mounted
       THEN /\ changeRequest' = IF res.stored THEN "" ELSE changeRequest
            /\ error' = IF res.stored THEN error ELSE res.error
            /\ isApplyingChanges' = FALSE
       ELSE UNCHANGED <<changeRequest, error, isApplyingChanges>>
    /\ calls' = RemoveCall(c)
    /\ UNCHANGED <<currentStep, apiKey, apiKeyValid, detectedTier, bookContent,
                   extractionInfo, fileName, isAnalyzing, generatedAppendices,
                   forecastYears, wordCountOption, inputKey, isValidating,
                   isExtracting, isGenerating, alertMsg, proxy, probe, sidebar>>

ApplyDone(c, answer) ==
    /\ c \in InFlight /\ c.kind = "apply"
    /\ ApplySettles(c, PlanFromCall(c, answer))

setForecastYears(years) ==
    /\ UIFree /\ currentStep = 3
    /\ PlanTruthy(planningData)
    /\ forecastYears' = JNum(years)
    /\ UNCHANGED <<currentStep, apiKey, apiKeyValid, detectedTier, bookContent,
                   extractionInfo, fileName, planningData, isAnalyzing,
                   generatedAppendices, wordCountOption, localVars, alertMsg,
                   calls, proxy, probe, sidebar>>

setWordCountOption(option) ==
    /\ UIFree /\ currentStep = 3
    /\ PlanTruthy(planningData)
    /\ wordCountOption' = JStr(option)
    /\ UNCHANGED <<currentStep, apiKey, apiKeyValid, detectedTier, bookContent,
                   extractionInfo, fileName, planningData, isAnalyzing,
                   generatedAppendices, forecastYears, localVars, alertMsg,
                   calls, proxy, probe, sidebar>>

handleContinueAnalyze ==
    /\ UIFree /\ currentStep = 3
    /\ PlanTruthy(planningData)
    /\ setCurrentStep(4, apiKey)
    /\ UNCHANGED <<apiKey, apiKeyValid, detectedTier, bookContent, extractionInfo,
                   fileName, planningData, isAnalyzing, generatedAppendices,
                   forecastYears, wordCountOption, alertMsg, proxy, probe, sidebar>>

(***************************************************************************)
(* Step 4: Generate.                                                       *)
(***************************************************************************)
\* A store that writes the content under every group id.
addToEveryGroup(prev, groupId, content) == [k \in DOMAIN prev \cup Groups |-> content]

\* setGeneratedAppendices(prev => ({...prev, [groupId]: content}))
addGeneratedAppendix(prev, groupId, content) ==
    [k \in DOMAIN prev \cup {groupId} |-> IF k = groupId THEN content ELSE prev[k]]

\* The Generate and Regenerate buttons: disabled={isGenerating !== null}
GenerateDisabled == isGenerating # NULL

handleGenerate(group, sig) ==
    /\ UIFree /\ currentStep = 4
    /\ PlanTruthy(planningData) /\ group \in PlanGroups(planningData)
    /\ ~GenerateDisabled
    /\ Truthy(apiKey) /\ Truthy(bookContent)
    /\ NumInFlight < MaxInFlight
    /\ isGenerating' = group
    /\ error' = NULL
    /\ calls' = AddCall(Call("generate", group, planningData, sig))
    /\ UNCHANGED <<ctxVars, inputKey, isValidating, isExtracting,
                   isApplyingChanges, changeRequest, alertMsg, proxy, probe, sidebar>>

\* A try block that stores whatever came back, thrown or not.
AppendedAlways(prev, groupId, r) == addGeneratedAppendix(prev, groupId, r.text)

\* What handleGenerate's try block leaves in generatedAppendices.
Appended(prev, groupId, r) ==
    IF r.ok THEN addGeneratedAppendix(prev, groupId, r.text) ELSE prev

GenerateSettles(c, r) ==
    /\ generatedAppendices' = Appended(generatedAppendices, c.arg, r)
    /\ IF c.mounted
       THEN /\ isGenerating' = NULL
            /\ error' = IF r.ok THEN error ELSE r.error
       ELSE UNCHANGED <<isGenerating, error>>
    /\ calls' = RemoveCall(c)
    /\ UNCHANGED <<currentStep, apiKey, apiKeyValid, detectedTier, bookContent,
                   extractionInfo, fileName, planningData, isAnalyzing,
                   forecastYears, wordCountOption, inputKey, isValidating,
                   isExtracting, isApplyingChanges, changeRequest, alertMsg, proxy, probe, sidebar>>

GenerateDone(c, answer) ==
    /\ c \in InFlight /\ c.kind = "generate"
    /\ GenerateSettles(c, callGemini(c, answer, ""))

(***************************************************************************)
(* Reset and project load.                                                 *)
(***************************************************************************)
resetAll ==
    /\ setCurrentStep(1, NULL)
    /\ apiKey' = NULL
    /\ apiKeyValid' = FALSE
    /\ detectedTier' = NULL
    /\ bookContent' = NULL
    /\ extractionInfo' = NULL
    /\ fileName' = NULL
    /\ planningData' = NullPlan
    /\ isAnalyzing' = FALSE
    /\ generatedAppendices' = EmptyMap
    /\ forecastYears' = JNum(DefaultForecastYears)
    /\ wordCountOption' = JStr(DefaultWordCountOption)

\* The header's New Project button, rendered when planningData is truthy.
HeaderNewProject ==
    /\ UIFree
    /\ PlanTruthy(planningData)
    /\ resetAll
    /\ UNCHANGED <<alertMsg, proxy, probe, sidebar>>

\* The sidebar's New Project, directly or through its confirmation.
handleNewProject ==
    /\ UIFree
    /\ resetAll
    /\ UNCHANGED <<alertMsg, proxy, probe, sidebar>>

FullFile ==
    [json |-> TRUE, version |-> "1.0", apiKey |-> "k1", fileName |-> "b2.pdf",
     bookContent |-> "b2", extractionInfo |-> "info2",
     planningData |-> Plan({"GROUP_A"}), genAbsent |-> FALSE,
     generatedAppendices |-> [k \in {"GROUP_A"} |-> "t0"],
     forecastYears |-> JNum(15), wordCountOption |-> JStr("2500-3500")]

MinimalFile ==
    [json |-> TRUE, version |-> "1.0", apiKey |-> UNDEF, fileName |-> UNDEF,
     bookContent |-> UNDEF, extractionInfo |-> UNDEF, planningData |-> UndefPlan,
     genAbsent |-> TRUE, generatedAppendices |-> EmptyMap,
     forecastYears |-> JAbsent, wordCountOption |-> JAbsent]

OutOfRangeFile ==
    [json |-> TRUE, version |-> "1.0", apiKey |-> NULL, fileName |-> NULL,
     bookContent |-> NULL, extractionInfo |-> NULL, planningData |-> NullPlan,
     genAbsent |-> TRUE, generatedAppendices |-> EmptyMap,
     forecastYears |-> JNum(100), wordCountOption |-> JStr("bogus")]

ZeroedFile ==
    [OutOfRangeFile EXCEPT !.forecastYears = JNum(0), !.wordCountOption = JStr(""),
                           !.planningData = Plan(Groups)]

ProjectFiles ==
    {FullFile, MinimalFile, OutOfRangeFile, ZeroedFile,
     [FullFile EXCEPT !.json = FALSE],
     [FullFile EXCEPT !.version = UNDEF]}

\* A gate that lets any parsed file through.
AnyVersion(data) == TRUE

\* if (!data.version) { alert(...); return; }
HasVersion(data) == Truthy(data.version)

\* loadFile's gate: JSON.parse must succeed and data.version be truthy.
PassesGate(file) == file.json /\ HasVersion(file)

loadProjectData(data) ==
    /\ apiKey' = IF Truthy(data.apiKey) THEN data.apiKey ELSE apiKey
    /\ fileName' = data.fileName
    /\ bookContent' = data.bookContent
    /\ extractionInfo' = data.extractionInfo
    /\ planningData' = data.planningData
    /\ generatedAppendices' =
           IF data.genAbsent THEN EmptyMap ELSE data.generatedAppendices
    /\ forecastYears' = JOr(data.forecastYears, JNum(DefaultForecastYears))
    /\ wordCountOption' = JOr(data.wordCountOption, JStr(DefaultWordCountOption))
    /\ setCurrentStep(1, apiKey')
    /\ UNCHANGED <<apiKeyValid, detectedTier, isAnalyzing>>

loadFile(file) ==
    /\ UIFree
    /\ IF ~file.json
       THEN /\ alertMsg' = "Failed to load project file. Please check the file format."
            /\ UNCHANGED <<ctxVars, localVars, calls>>
       ELSE IF ~HasVersion(file)
       THEN /\ alertMsg' = "Invalid project file format: missing version"
            /\ UNCHANGED <<ctxVars, localVars, calls>>
       ELSE /\ loadProjectData(file)
            /\ UNCHANGED alertMsg
    /\ UNCHANGED <<proxy, probe, sidebar>>

(***************************************************************************)
(* The session.                                                            *)
(***************************************************************************)
DismissAlert ==
    /\ AlertOpen
    /\ alertMsg' = NULL
    /\ UNCHANGED <<ctxVars, localVars, calls, proxy, probe, sidebar>>

\* A pending promise settles; nothing runs while an alert holds the page.
SetupCompletion ==
    /\ ~AlertOpen
    /\ \E c \in InFlight :
        \/ \E r \in ValidationResults : ValidateDone(c, r)
        \/ \E ok \in BOOLEAN : ExtractDone(c, ok)

AICompletion ==
    /\ ~AlertOpen
    /\ \E c \in InFlight :
        \/ \E a \in PlanAnswers : AnalyzeDone(c, a)
        \/ \E a \in PlanAnswers : ApplyDone(c, a)
        \/ \E a \in TextAnswers : GenerateDone(c, a)

\* The wizard up to the plan review: key, book, navigation, change request.
Wizard ==
    \/ \E k \in InputKeys : SetInputKey(k)
    \/ handleValidate
    \/ handleContinueApi
    \/ \E n \in 1..4 : handleStepClick(n)
    \/ \E f \in UploadFiles : handleFile(f)
    \/ handleContinueUpload
    \/ \E t \in ChangeRequests : setChangeRequest(t)
    \/ handleContinueAnalyze

\* Settings, reset and project files.
Project ==
    \/ handleReset
    \/ \E y \in ForecastChoices : setForecastYears(y)
    \/ \E o \in WordCountChoices : setWordCountOption(o)
    \/ HeaderNewProject
    \/ handleNewProject
    \/ \E f \in ProjectFiles : loadFile(f)
    \/ DismissAlert

\* The session as the components call the AI boundary: without a signal.
Next ==
    \/ Wizard
    \/ Project
    \/ handleAnalyze("none")
    \/ handleApplyChanges("none")
    \/ \E g \in Groups : handleGenerate(g, "none")
    \/ SetupCompletion
    \/ AICompletion

Spec == Init /\ [][Next]_vars

(***************************************************************************)
(* The AI boundary with a cancellation signal.  callGemini takes an        *)
(* optional AbortSignal; here the handlers' calls may carry one and its    *)
(* owner may abort it while the request is in flight.                      *)
(***************************************************************************)
Signals == {"none", "live"}

\* AbortController.abort() on the signal handed to callGemini for c.
Abort(c) ==
    /\ c \in InFlight /\ c.sig = "live"
    /\ calls' = RemoveCall(c) (+) SetToBag({[c EXCEPT !.sig = "aborted"]})
    /\ UNCHANGED <<ctxVars, localVars, alertMsg, proxy, probe, sidebar>>

NextCancel ==
    \/ Wizard
    \/ \E sig \in Signals : handleAnalyze(sig)
    \/ \E sig \in Signals : handleApplyChanges(sig)
    \/ \E g \in Groups, sig \in Signals : handleGenerate(g, sig)
    \/ \E c \in InFlight : Abort(c)
    \/ SetupCompletion
    \/ AICompletion

SpecCancel == Init /\ [][NextCancel]_vars

(***************************************************************************)
(* The /api/gemini route handling one 'generate' request, and callGemini   *)
(* reading its response.  Strings that the handler searches are given by   *)
(* their text as a sequence of fragments; includes() is a search for a     *)
(* contiguous run of fragments and toLowerCase() maps fragment by fragment.*)
(***************************************************************************)
ProModel == "gemini-2.5-pro"
FlashModel == "gemini-2.5-flash"

ModelText ==
    [m \in {ProModel, FlashModel} |->
        IF m = ProModel THEN <<"gemini-2.5-", "pro">> ELSE <<"gemini-2.5-", "flash">>]

ErrorText ==
    ( "429 RESOURCE_EXHAUSTED: Quota exceeded, limit: 0"
        :> <<"429 ", "RESOURCE_EXHAUSTED", ": ", "Quota", " exceeded, ", "limit", ":", " ", "0">> )
    @@ ( "quota_metric: free_tier_requests"
        :> <<"quota", "_metric: ", "free_tier", "_requests">> )
    @@ ( "{\"limit\":0}" :> <<"{\"", "limit", "\"", ":", "0", "}">> )
    @@ ( "{\"limit\": 0}" :> <<"{\"", "limit", "\"", ":", " ", "0", "}">> )
    @@ ( "RESOURCE_EXHAUSTED: rate Limit" :> <<"RESOURCE_EXHAUSTED", ": rate ", "Limit">> )
    @@ ( "Quota exceeded for this project" :> <<"Quota", " exceeded for this ", "pro", "ject">> )
    @@ ( "Quota exceeded" :> <<"Quota", " exceeded">> )
    @@ ( "Limit: 0" :> <<"Limit", ":", " ", "0">> )
    @@ ( "503 Service Unavailable" :> <<"503 Service Unavailable">> )

ErrorMessages == DOMAIN ErrorText

\* String.prototype.includes
Includes(text, needle) ==
    \E i \in 1..(Len(text) - Len(needle) + 1) :
        SubSeq(text, i, i + Len(needle) - 1) = needle

isTierErrorText(errorStr, errorLower) ==
    \/ Includes(errorLower, <<"free_tier">>)
    \/ Includes(errorStr, <<"limit", ":", " ", "0">>)
    \/ Includes(errorStr, <<"limit", "\"", ":", "0">>)
    \/ Includes(errorStr, <<"limit", "\"", ":", " ", "0">>)
    \/ (Includes(errorLower, <<"resource_exhausted">>) /\ Includes(errorLower, <<"limit">>))
    \/ (Includes(errorLower, <<"quota">>) /\ Includes(errorLower, <<"pro">>))

isTierError(errorStr) == isTierErrorText(ErrorText[errorStr], ToLowerCase(ErrorText[errorStr]))

\* What generateContent does for one invocation: a text, or a thrown Error.
Outcomes ==
    {[ok |-> TRUE, text |-> t, message |-> ""] : t \in {"", "t1"}}
    \cup {[ok |-> FALSE, text |-> "", message |-> m] : m \in ErrorMessages}

Requests ==
    [apiKey : {"", "k1"}, prompt : {"", "p1"}, model : {"", ProModel, FlashModel}]

Json(status, answer) == [status |-> status, data |-> answer]

Invocation(model, outcome) == [model |-> model, outcome |-> outcome]

\* A retry rule that looks at the error alone.
FallsBackOnTierError(modelName, errorStr) == isTierError(errorStr)

\* modelName.includes('pro') && isTierError(errorStr)
FallsBack(modelName, errorStr) ==
    Includes(ModelText[modelName], <<"pro">>) /\ isTierError(errorStr)

\* const modelName = model || 'gemini-2.5-flash'
ModelNameOf(model) == IF model = "" THEN FlashModel ELSE model

POST(request) ==
    /\ proxy.pc = "idle"
    /\ proxy' =
         IF request.apiKey = ""
         THEN [pc |-> "responded", request |-> request, invocations |-> <<>>,
               response |-> Json(400, Failure("API key is required", ""))]
         ELSE IF request.prompt = ""
         THEN [pc |-> "responded", request |-> request, invocations |-> <<>>,
               response |-> Json(400, Failure("Prompt is required for generation", ""))]
         ELSE [pc |-> "generate", request |-> request, invocations |-> <<>>,
               response |-> Json(0, Failure("", ""))]
    /\ UNCHANGED <<ctxVars, localVars, alertMsg, calls, probe, sidebar>>

\* The first generateContent settles.
FirstAfter(modelName, outcome) ==
    IF outcome.ok
    THEN [pc |-> "responded", response |-> Json(200, Success(outcome.text))]
    ELSE IF FallsBack(modelName, outcome.message)
    THEN [pc |-> "fallback", response |-> Json(0, Failure("", ""))]
    ELSE [pc |-> "responded", response |-> Json(200, Failure(outcome.message, ""))]

Invoked(modelName, outcome, after) ==
    /\ proxy' = [proxy EXCEPT !.pc = after.pc,
                              !.invocations = Append(@, Invocation(modelName, outcome)),
                              !.response = after.response]
    /\ UNCHANGED <<ctxVars, localVars, alertMsg, calls, probe, sidebar>>

GenerateContent(outcome) ==
    /\ proxy.pc = "generate"
    /\ Invoked(ModelNameOf(proxy.request.model), outcome,
               FirstAfter(ModelNameOf(proxy.request.model), outcome))

\* A fallback whose failure answers with the first invocation's message.
FallbackReportsFirstError(outcome) ==
    IF outcome.ok
    THEN [pc |-> "responded", response |-> Json(200, Success(outcome.text))]
    ELSE [pc |-> "responded",
          response |-> Json(200, Failure(proxy.invocations[1].outcome.message, ""))]

\* The fallback generateContent settles.
FallbackAfter(outcome) ==
    IF outcome.ok
    THEN [pc |-> "responded", response |-> Json(200, Success(outcome.text))]
    ELSE [pc |-> "responded", response |-> Json(200, Failure(outcome.message, ""))]

FallbackGenerateContent(outcome) ==
    /\ proxy.pc = "fallback"
    /\ Invoked(FlashModel, outcome, FallbackAfter(outcome))

\* callGemini on the proxy's response: the body is read whatever the status,
\* and the text is returned or the Error thrown on data.success alone.
CallGeminiSettles ==
    /\ proxy.pc = "responded"
    /\ proxy' = [pc |-> "settled", request |-> proxy.request,
                 invocations |-> proxy.invocations, response |-> proxy.response,
                 result |-> callGemini([sig |-> "none"], proxy.response.data, "")]
    /\ UNCHANGED <<ctxVars, localVars, alertMsg, calls, probe, sidebar>>

NextRequest ==
    /\ proxy.pc = "settled"
    /\ proxy' = ProxyIdle
    /\ UNCHANGED <<ctxVars, localVars, alertMsg, calls, probe, sidebar>>

NextProxy ==
    \/ \E request \in Requests : POST(request)
    \/ \E outcome \in Outcomes : GenerateContent(outcome)
    \/ \E outcome \in Outcomes : FallbackGenerateContent(outcome)
    \/ CallGeminiSettles
    \/ NextRequest

SpecProxy == Init /\ [][NextProxy]_vars

(***************************************************************************)
(* Properties of the session (Spec).                                       *)
(***************************************************************************)
\* The step settles call c: c leaves the bag and nothing else does.
Settles(c) == c \in InFlight /\ calls' = RemoveCall(c)

\* C1 as stated: in every reachable state every key of generatedAppendices
\* is the group_id of a group of the current planningData.chapters.
C1_KeysInCurrentPlan ==
    \A k \in DOMAIN generatedAppendices : k \in PlanGroups(planningData)

\* C1: a key enters generatedAppendices only when a generate call for that
\* group settles, the group being one of the planningData.chapters the call
\* was started from, or when a project file that carries the key is loaded;
\* a later change of the plan leaves the entries where they are.
C1_KeysFromPlanAtStart ==
    [][\A k \in DOMAIN generatedAppendices' \ DOMAIN generatedAppendices :
          \/ \E c \in InFlight :
                /\ Settles(c) /\ c.kind = "generate"
                /\ c.arg = k /\ k \in PlanGroups(c.from)
          \/ \E f \in ProjectFiles :
                /\ f.json /\ f.version # UNDEF /\ ~f.genAbsent
                /\ generatedAppendices' = f.generatedAppendices
                /\ planningData' = f.planningData]_vars

\* An appendix stored by a generate call whose group the plan no longer has.
C1_Witness ==
    \E k \in DOMAIN generatedAppendices :
        /\ generatedAppendices[k] \in AITexts
        /\ PlanTruthy(planningData)
        /\ k \notin PlanGroups(planningData)

\* The answer makes the analyze or applyChange call c fail: the call is
\* aborted, the AI answers with an error, or its text does not parse.
PlanCallFails(c, a) ==
    \/ c.sig = "aborted"
    \/ ~a.success
    \/ ~parseJsonResponse(a.text).ok

PlanCallSettles(c, a) == AnalyzeDone(c, a) \/ ApplyDone(c, a)

\* C2 as stated: when analyze or applyChange fails, planningData is what it
\* was when the operation started.
C2_FailureLeavesPlanOfStart ==
    [][\A c \in InFlight :
          \/ ~Settles(c)
          \/ planningData' = c.from
          \/ \A a \in PlanAnswers : ~(PlanCallFails(c, a) /\ PlanCallSettles(c, a))]_vars

\* C2: a failing analyze or applyChange installs nothing: planningData after
\* the failure is handled is planningData as it was just before, whatever
\* other operations did to it since the call started.
C2_FailureInstallsNothing ==
    [][\A c \in InFlight :
          \/ ~Settles(c)
          \/ planningData' = planningData
          \/ \A a \in PlanAnswers : ~(PlanCallFails(c, a) /\ PlanCallSettles(c, a))]_vars

\* A parse failure is shown while the plan it did not replace is in place.
C2_Witness ==
    /\ currentStep = 3
    /\ error = "Could not parse JSON response from AI"
    /\ PlanTruthy(planningData)

\* C3: a generate call for group g changes generatedAppendices only when it
\* settles and only at key g: on success the entry for g is the returned
\* text, on failure the map is unchanged, every other key keeps its value.
C3_GenerateWritesOnlyItsKey ==
    [][/\ \A g \in Groups : handleGenerate(g, "none") => UNCHANGED generatedAppendices
       /\ \A c \in InFlight : \A a \in TextAnswers :
            (Settles(c) /\ GenerateDone(c, a)) =>
                /\ DOMAIN generatedAppendices' \subseteq DOMAIN generatedAppendices \cup {c.arg}
                /\ \A k \in DOMAIN generatedAppendices \ {c.arg} :
                      /\ k \in DOMAIN generatedAppendices'
                      /\ generatedAppendices'[k] = generatedAppendices[k]
                /\ a.success => /\ c.arg \in DOMAIN generatedAppendices'
                                /\ generatedAppendices'[c.arg] = a.text
                /\ ~a.success => generatedAppendices' = generatedAppendices]_vars

\* The appendix loaded from FullFile has been overwritten by a generated one.
C3_Witness ==
    /\ fileName = FullFile.fileName
    /\ "GROUP_A" \in DOMAIN generatedAppendices
    /\ generatedAppendices["GROUP_A"] \in AITexts

\* The number of calls of the given kinds that are in flight.
CountInFlight(kinds) ==
    BagCardinality([c \in {d \in InFlight : d.kind \in kinds} |-> calls[c]])

\* C6: at most one plan-writing operation (analyze, re-analyze, applyChange)
\* is in flight at any moment.
C6_PlanWritesSerialized == CountInFlight({"analyze", "apply"}) <= 1

\* C7: at most one appendix-generation call is in flight at any time.
C7_OneGenerateInFlight == CountInFlight({"generate"}) <= 1

\* The session state that a project load may write.
sessionVars == <<ctxVars, localVars, calls>>

\* C9: loading a file that is not valid JSON or has no version field is
\* rejected as a whole: the user is told, loadProjectData is not called and
\* the session state, current step included, is unchanged.
C9_RejectedLoadChangesNothing ==
    [][\A f \in ProjectFiles :
          ((~f.json \/ f.version = UNDEF) /\ loadFile(f)) =>
              (AlertOpen' /\ UNCHANGED sessionVars)]_vars

\* A rejected load is on screen over a session that has a plan and appendices.
C9_Witness ==
    /\ alertMsg = "Invalid project file format: missing version"
    /\ currentStep = 4
    /\ PlanTruthy(planningData)
    /\ generatedAppendices # EmptyMap

ValidForecastYears(v) == v.t = "num" /\ v.n \in MinForecastYears..MaxForecastYears
ValidWordCountOption(v) == v.t = "str" /\ v.s \in WordCountOptions

\* C10: after loading a file that passes the version gate, forecastYears is
\* an integer in [5,30] and wordCountOption is one of the three options, an
\* absent or invalid value having been replaced by the default, and an
\* absent generatedAppendices is the empty mapping.
C10_LoadedSettingsValid ==
    [][\A f \in ProjectFiles :
          (PassesGate(f) /\ loadFile(f)) =>
              /\ ValidForecastYears(forecastYears')
              /\ ValidWordCountOption(wordCountOption')
              /\ ~ValidForecastYears(f.forecastYears) =>
                     forecastYears' = JNum(DefaultForecastYears)
              /\ ~ValidWordCountOption(f.wordCountOption) =>
                     wordCountOption' = JStr(DefaultWordCountOption)
              /\ f.genAbsent => generatedAppendices' = EmptyMap]_vars

TierMessages ==
    {"429 RESOURCE_EXHAUSTED: Quota exceeded, limit: 0",
     "quota_metric: free_tier_requests",
     "{\"limit\":0}",
     "{\"limit\": 0}",
     "RESOURCE_EXHAUSTED: rate Limit",
     "Quota exceeded for this project"}

ProxyAnswered == proxy.pc \in {"responded", "settled"}
ProxyInvoked == proxy.pc # "idle" /\ proxy.invocations # <<>>
FirstInvocation == proxy.invocations[1]
SecondInvocation == proxy.invocations[2]

\* The first invocation was against a pro model and failed with a tier error.
ProTierFailure ==
    /\ ProxyInvoked
    /\ FirstInvocation.model = ProModel
    /\ ~FirstInvocation.outcome.ok
    /\ FirstInvocation.outcome.message \in TierMessages

\* C4: one generate request makes at most two model invocations, the second
\* only after a pro-model invocation that failed with a tier error; any
\* other failure is answered, without a retry, with its own message.
C4_FallbackAtMostOnce ==
    proxy.pc # "idle" =>
        /\ Len(proxy.invocations) <= 2
        /\ Len(proxy.invocations) = 2 => ProTierFailure
        /\ (ProxyAnswered /\ ProxyInvoked /\ ~ProTierFailure
                /\ ~FirstInvocation.outcome.ok) =>
               /\ Len(proxy.invocations) = 1
               /\ ~proxy.response.data.success
               /\ proxy.response.data.error = FirstInvocation.outcome.message

\* A flash-model tier error was answered as it is, without a retry.
C4_Witness ==
    /\ proxy.pc = "settled"
    /\ Len(proxy.invocations) = 1
    /\ FirstInvocation.model = FlashModel
    /\ FirstInvocation.outcome.message \in TierMessages
    /\ proxy.result.error = FirstInvocation.outcome.message

\* C5: after a pro-model tier error exactly one fallback invocation is made,
\* against the flash model; its text is the successful result, and if it
\* fails the error reported to the caller is its message, not the pro one.
C5_FallbackResultReported ==
    (ProTierFailure /\ ProxyAnswered) =>
        /\ Len(proxy.invocations) = 2
        /\ SecondInvocation.model = FlashModel
        /\ proxy.response.data.success = SecondInvocation.outcome.ok
        /\ SecondInvocation.outcome.ok =>
               proxy.response.data.text = SecondInvocation.outcome.text
        /\ ~SecondInvocation.outcome.ok =>
               proxy.response.data.error = SecondInvocation.outcome.message
        /\ proxy.pc = "settled" =>
               /\ proxy.result.ok = SecondInvocation.outcome.ok
               /\ proxy.result.text = SecondInvocation.outcome.text
               /\ proxy.result.error = SecondInvocation.outcome.message

\* The fallback failed with another message than the pro model's, and the
\* caller got the fallback's.
C5_Witness ==
    /\ proxy.pc = "settled"
    /\ ProTierFailure
    /\ ~SecondInvocation.outcome.ok
    /\ SecondInvocation.outcome.message # FirstInvocation.outcome.message
    /\ proxy.result.error = SecondInvocation.outcome.message

(***************************************************************************)
(* Properties of the project load (Spec), continued.                       *)
(***************************************************************************)
\* C11: after loadProjectData(s) the fields apiKey, fileName, bookContent,
\* extractionInfo, planningData and generatedAppendices equal the values
\* held in the snapshot s, whatever the session held before the load (a
\* snapshot without a key leaves the session without a key).
C11_LoadCopiesSnapshot ==
    [][\A f \in ProjectFiles :
          (PassesGate(f) /\ loadFile(f)) =>
              /\ Truthy(f.apiKey) => apiKey' = f.apiKey
              /\ ~Truthy(f.apiKey) => ~Truthy(apiKey')
              /\ fileName' = f.fileName
              /\ bookContent' = f.bookContent
              /\ extractionInfo' = f.extractionInfo
              /\ planningData' = f.planningData
              /\ ~f.genAbsent => generatedAppendices' = f.generatedAppendices]_vars

(***************************************************************************)
(* Extracted text.  A text is a sequence of tokens, each a run of          *)
(* characters of one kind with its length n: a "[Page N]" tag (page its     *)
(* number), a newline, a blank, a heading word (w the word, standing for   *)
(* any of its letter cases), a chapter word, a number, a dot, body text    *)
(* that holds none of these, and the truncation marker.  Offsets and       *)
(* lengths are counted in characters, as the code counts them.             *)
(***************************************************************************)
MaxChars == 1000000
MarkerLength == 67
PageTagPrefix == 6

Token(k, n, w) == [k |-> k, n |-> n, w |-> w, page |-> 0]
Body(n) == Token("body", n, "")
NL == Token("nl", 1, "")
SP == Token("sp", 1, "")
PageTag(i) == [Token("tag", IF i < 10 THEN 8 ELSE 9, "") EXCEPT !.page = i]
Marker == Token("marker", MarkerLength, "")

RECURSIVE TextLength(_)
TextLength(t) == IF t = <<>> THEN 0 ELSE Head(t).n + TextLength(Tail(t))

\* The characters x..y-1 of token h: a tag cut after its "[Page " is still
\* found by a search for '[Page '; any other piece is plain text.
CutToken(h, x, y) ==
    IF x = 0 /\ y = h.n THEN h
    ELSE IF h.k = "tag" /\ x = 0 /\ y >= PageTagPrefix THEN [h EXCEPT !.k = "tagcut", !.n = y]
    ELSE Body(y - x)

\* content.slice(a, b) for 0 <= a <= b.
RECURSIVE Slice(_, _, _)
Slice(t, a, b) ==
    IF t = <<>> \/ b <= 0 \/ a >= b THEN <<>>
    ELSE IF a >= Head(t).n THEN Slice(Tail(t), a - Head(t).n, b - Head(t).n)
    ELSE <<CutToken(Head(t), a, IF b < Head(t).n THEN b ELSE Head(t).n)>>
         \o Slice(Tail(t), 0, b - Head(t).n)

\* The offsets at which '[Page ' occurs.
PageBreaks(t) ==
    {TextLength(SubSeq(t, 1, i - 1)) : i \in {j \in 1..Len(t) : t[j].k \in {"tag", "tagcut"}}}

\* text.lastIndexOf('[Page ') and text.indexOf('[Page ')
LastIndexOfPage(t) ==
    IF PageBreaks(t) = {} THEN -1
    ELSE CHOOSE x \in PageBreaks(t) : \A y \in PageBreaks(t) : y <= x
IndexOfPage(t) ==
    IF PageBreaks(t) = {} THEN -1
    ELSE CHOOSE x \in PageBreaks(t) : \A y \in PageBreaks(t) : x <= y

(***************************************************************************)
(* truncateContentSmart                                                    *)
(***************************************************************************)
\* A head cut that snaps to the last page tag wherever it is.
SnapHeadAnywhere(beginning, beginningChars) ==
    IF LastIndexOfPage(beginning) > 0
    THEN Slice(beginning, 0, LastIndexOfPage(beginning))
    ELSE beginning

\* if (lastPageBreak > beginningChars * 0.8) beginning = beginning.slice(0, lastPageBreak)
SnapHead(beginning, beginningChars) ==
    IF 5 * LastIndexOfPage(beginning) > 4 * beginningChars
    THEN Slice(beginning, 0, LastIndexOfPage(beginning))
    ELSE beginning

\* if (firstPageBreak !== -1 && firstPageBreak < endChars * 0.2) ending = ending.slice(firstPageBreak)
SnapTail(ending, endChars) ==
    IF IndexOfPage(ending) # -1 /\ 5 * IndexOfPage(ending) < endChars
    THEN Slice(ending, IndexOfPage(ending), TextLength(ending))
    ELSE ending

\* Math.round((truncated.length / content.length) * 100 * 10) / 10, in tenths
KeptPercentage(truncated, content) ==
    (1000 * TextLength(truncated) + TextLength(content) \div 2) \div TextLength(content)

Truncated(content, truncated) ==
    [text |-> truncated, wasTruncated |-> TRUE,
     keptPercentage |-> KeptPercentage(truncated, content)]

truncateContentSmart(content, maxChars) ==
    IF TextLength(content) <= maxChars
    THEN [text |-> content, wasTruncated |-> FALSE, keptPercentage |-> 1000]
    ELSE Truncated(content,
            SnapHead(Slice(content, 0, (maxChars * 55) \div 100), (maxChars * 55) \div 100)
            \o <<Marker>>
            \o SnapTail(Slice(content, TextLength(content) - (maxChars * 45) \div 100,
                              TextLength(content)),
                        (maxChars * 45) \div 100))

\* Texts around the ceiling and well above it, with a page tag near the head
\* cut and one near the tail cut, and texts without tags.
HeadLengths == {440000, 440001, 549994, 549995, 600000}
TailLengths == {449995, 449992, 400000, 359993, 359992, 100000}
TotalLengths == {1000000, 1000001, 1000067, 1000068, 1100000, 2000000, 10000000}

TaggedContent(a, c, total) ==
    <<Body(a), PageTag(1), Body(total - a - c - 16), PageTag(2), Body(c)>>

TruncateInputs ==
    {TaggedContent(a, c, total) :
        <<a, c, total>> \in {x \in HeadLengths \X TailLengths \X TotalLengths :
                               x[3] - x[1] - x[2] - 16 >= 1}}
    \cup {<<Body(total)>> : total \in TotalLengths \cup {10, 999999}}
    \cup {<<>>}

CallTruncate(content) ==
    /\ probe = ProbeIdle
    /\ probe' = [fn |-> "truncateContentSmart", pc |-> "called", content |-> content]
    /\ UNCHANGED <<ctxVars, localVars, alertMsg, calls, proxy, sidebar>>

ReturnTruncate ==
    /\ probe.fn = "truncateContentSmart" /\ probe.pc = "called"
    /\ probe' = [fn |-> probe.fn, pc |-> "returned", content |-> probe.content,
                 result |-> truncateContentSmart(probe.content, MaxChars)]
    /\ UNCHANGED <<ctxVars, localVars, alertMsg, calls, proxy, sidebar>>

NextTruncate ==
    \/ \E content \in TruncateInputs : CallTruncate(content)
    \/ ReturnTruncate

SpecTruncate == Init /\ [][NextTruncate]_vars

(***************************************************************************)
(* Properties of truncateContentSmart (SpecTruncate).                      *)
(***************************************************************************)
TruncateReturned == probe.fn = "truncateContentSmart" /\ probe.pc = "returned"
BeginningChars == (MaxChars * 55) \div 100
EndChars == (MaxChars * 45) \div 100

\* C12: for a text longer than the ceiling truncateContentSmart returns
\* wasTruncated = true and a text strictly shorter than its input; for a text
\* at or below the ceiling it returns wasTruncated = false and the input.
C12_TruncateShortens ==
    TruncateReturned =>
        IF TextLength(probe.content) > MaxChars
        THEN /\ probe.result.wasTruncated
             /\ TextLength(probe.result.text) < TextLength(probe.content)
        ELSE /\ ~probe.result.wasTruncated
             /\ probe.result.text = probe.content

\* C13: for an input above the ceiling the output is at most
\* floor(0.55*ceiling) + floor(0.45*ceiling) + marker length long, the head
\* and the tail are each shortened by snapping by less than 20% of their
\* share, and the kept lengths of any two such inputs, whatever their
\* lengths, differ by no more than that tolerance.
C13_KeptLengthFixedByCeiling ==
    (TruncateReturned /\ TextLength(probe.content) > MaxChars) =>
        /\ TextLength(probe.result.text) <= BeginningChars + EndChars + MarkerLength
        /\ \E m \in 1..Len(probe.result.text) :
              /\ probe.result.text[m] = Marker
              /\ 5 * (BeginningChars - TextLength(SubSeq(probe.result.text, 1, m - 1)))
                     < BeginningChars
              /\ 5 * (EndChars - TextLength(SubSeq(probe.result.text, m + 1,
                                                  Len(probe.result.text))))
                     < EndChars
        /\ \A other \in TruncateInputs :
              TextLength(other) > MaxChars =>
                  /\ TextLength(probe.result.text)
                       - TextLength(truncateContentSmart(other, MaxChars).text)
                         <= (BeginningChars + EndChars) \div 5
                  /\ TextLength(truncateContentSmart(other, MaxChars).text)
                       - TextLength(probe.result.text)
                         <= (BeginningChars + EndChars) \div 5

\* An input of ten times the ceiling came back with its head and its tail
\* both snapped to a page tag.
C13_Witness ==
    /\ TruncateReturned
    /\ TextLength(probe.content) = 10 * MaxChars
    /\ probe.result.wasTruncated
    /\ \E m \in 1..Len(probe.result.text) :
          /\ probe.result.text[m] = Marker
          /\ TextLength(SubSeq(probe.result.text, 1, m - 1)) < BeginningChars
          /\ TextLength(SubSeq(probe.result.text, m + 1, Len(probe.result.text))) < EndChars

(***************************************************************************)
(* detectAndRemoveBibliography and detectAndRemoveIndex.  The heading      *)
(* patterns are matched on tokens: \s is a newline or blank token, a       *)
(* heading word is one "head" token.                                       *)
(***************************************************************************)
Heading(w, n) == Token("head", n, w)
Chapter == Token("chap", 7, "")
Number == Token("num", 1, "")
Dot == Token("dot", 1, "")

\* The heading words of each pattern (flag i: in any letter case).
PatternWords ==
    [bib1 |-> {"references", "bibliography", "works cited", "literature cited",
               "sources", "cited works", "reference list", "works referenced"},
     bib2 |-> {"references", "bibliography", "works cited", "literature cited",
               "cited works", "reference list"},
     bib3 |-> {"references", "bibliography"},
     idx1 |-> {"subject index", "author index", "index", "name index", "general index"},
     idx2 |-> {"subject index", "author index", "index", "name index", "general index"},
     appendix |-> {"appendix", "appendices"}]

IsSpace(tok) == tok.k \in {"nl", "sp"}
IsKind(t, i, k) == i <= Len(t) /\ t[i].k = k

\* \s* from token i on: the index of the first token that is not white.
RECURSIVE SkipSpace(_, _)
SkipSpace(t, i) ==
    IF i <= Len(t) /\ IsSpace(t[i]) THEN SkipSpace(t, i + 1) ELSE i

\* (?:Chapter\s+)?\d*\.?\s* from token i on.
SkipChapter(t, i) ==
    IF IsKind(t, i, "chap") /\ i < Len(t) /\ IsSpace(t[i + 1])
    THEN SkipSpace(t, i + 1) ELSE i
SkipOptional(t, i, k) == IF IsKind(t, i, k) THEN i + 1 ELSE i
SkipNumbering(t, i) ==
    SkipSpace(t, SkipOptional(t, SkipOptional(t, SkipChapter(t, i), "num"), "dot"))

\* (word)\s*\n with the word at token h: the index after the match, which
\* ends with the last newline of the white run that follows; 0 if no match.
HeadingEnd(t, h, words) ==
    IF /\ IsKind(t, h, "head") /\ t[h].w \in words
       /\ \E j \in (h + 1)..(SkipSpace(t, h + 1) - 1) : t[j].k = "nl"
    THEN 1 + CHOOSE j \in (h + 1)..(SkipSpace(t, h + 1) - 1) :
                 /\ t[j].k = "nl"
                 /\ \A i \in (j + 1)..(SkipSpace(t, h + 1) - 1) : t[i].k # "nl"
    ELSE 0

\* The pattern tried at token p: the index after its match, 0 if none.
MatchEnd(t, pat, p) ==
    CASE pat \in {"bib1", "idx1"} ->
            IF IsKind(t, p, "tag")
            THEN HeadingEnd(t, SkipSpace(t, p + 1), PatternWords[pat]) ELSE 0
      [] pat \in {"bib2", "idx2"} ->
            IF IsKind(t, p, "nl")
            THEN HeadingEnd(t, SkipSpace(t, p + 1), PatternWords[pat]) ELSE 0
      [] pat = "bib3" ->
            IF IsKind(t, p, "nl")
            THEN HeadingEnd(t, SkipNumbering(t, SkipSpace(t, p + 1)), PatternWords[pat])
            ELSE 0

\* content.matchAll(pattern): the tokens at which the successive matches
\* start, each search resuming where the match before ended.
RECURSIVE MatchAll(_, _, _)
MatchAll(t, pat, i) ==
    IF i > Len(t) THEN {}
    ELSE IF MatchEnd(t, pat, i) = 0 THEN MatchAll(t, pat, i + 1)
    ELSE {i} \cup MatchAll(t, pat, MatchEnd(t, pat, i))

\* match.index of a match that starts at token i
Offset(t, i) == TextLength(SubSeq(t, 1, i - 1))

\* The matches with match.index > content.length * tenths/10.
Candidates(content, pats, tenths) ==
    {p \in UNION {MatchAll(content, pat, 1) : pat \in pats} :
        10 * Offset(content, p) > tenths * TextLength(content)}

\* A selection that keeps the last qualifying match.
Last(S) == CHOOSE x \in S : \A y \in S : y <= x

\* if (bibStart === null || match.index < bibStart) bibStart = match.index
First(S) == CHOOSE x \in S : \A y \in S : x <= y

\* The matches of /\[Page \d+\]\s*\n?\s*(Appendix|Appendices)\s/i in
\* content.slice(bibStart).
AppendixMatches(content, bibStart) ==
    {q \in bibStart..Len(content) :
        /\ content[q].k = "tag"
        /\ IsKind(content, SkipSpace(content, q + 1), "head")
        /\ content[SkipSpace(content, q + 1)].w \in PatternWords.appendix
        /\ SkipSpace(content, q + 1) < Len(content)
        /\ IsSpace(content[SkipSpace(content, q + 1) + 1])}

\* A strip that cuts at the bibliography heading whatever follows.
CutAtBibliography(content, bibStart) == SubSeq(content, 1, bibStart - 1)

\* content.slice(0, bibStart) + remaining.slice(appendixMatch.index), or
\* content.slice(0, bibStart)
SpliceBibliography(content, bibStart) ==
    IF AppendixMatches(content, bibStart) # {}
    THEN SubSeq(content, 1, bibStart - 1)
         \o SubSeq(content, First(AppendixMatches(content, bibStart)), Len(content))
    ELSE SubSeq(content, 1, bibStart - 1)

Removed(content, text) ==
    [text |-> text, removed |-> TRUE,
     charsSaved |-> TextLength(content) - TextLength(text)]
NotRemoved(content) == [text |-> content, removed |-> FALSE, charsSaved |-> 0]

detectAndRemoveBibliography(content) ==
    IF Candidates(content, {"bib1", "bib2", "bib3"}, 6) = {} THEN NotRemoved(content)
    ELSE Removed(content,
            SpliceBibliography(content, First(Candidates(content, {"bib1", "bib2", "bib3"}, 6))))

detectAndRemoveIndex(content) ==
    IF Candidates(content, {"idx1", "idx2"}, 8) = {} THEN NotRemoved(content)
    ELSE Removed(content,
            SubSeq(content, 1, First(Candidates(content, {"idx1", "idx2"}, 8)) - 1))

\* Texts put together from up to MaxChunks pieces: body text, a reference
\* heading on a line of its own, one right after a page tag, a numbered
\* one, and a page that opens an appendix.
MaxChunks == 4
Chunks ==
    {<<Body(40)>>,
     <<Body(10), SP>>,
     <<NL, Heading("references", 10), NL>>,
     <<PageTag(7), NL, Heading("sources", 7), SP, NL, NL>>,
     <<NL, Chapter, SP, Number, Dot, SP, Heading("bibliography", 12), NL>>,
     <<PageTag(9), NL, Heading("appendix", 8), SP, Body(5)>>}

RECURSIVE Flatten(_)
Flatten(s) == IF s = <<>> THEN <<>> ELSE Head(s) \o Flatten(Tail(s))

BibliographyInputs ==
    {Flatten(s) : s \in UNION {[1..n -> Chunks] : n \in 0..MaxChunks}}

CallBibliography(content) ==
    /\ probe = ProbeIdle
    /\ probe' = [fn |-> "detectAndRemoveBibliography", pc |-> "called", content |-> content]
    /\ UNCHANGED <<ctxVars, localVars, alertMsg, calls, proxy, sidebar>>

ReturnBibliography ==
    /\ probe.fn = "detectAndRemoveBibliography" /\ probe.pc = "called"
    /\ probe' = [fn |-> probe.fn, pc |-> "returned", content |-> probe.content,
                 result |-> detectAndRemoveBibliography(probe.content)]
    /\ UNCHANGED <<ctxVars, localVars, alertMsg, calls, proxy, sidebar>>

NextBibliography ==
    \/ \E content \in BibliographyInputs : CallBibliography(content)
    \/ ReturnBibliography

SpecBibliography == Init /\ [][NextBibliography]_vars

(***************************************************************************)
(* Properties of detectAndRemoveBibliography (SpecBibliography).           *)
(***************************************************************************)
BibliographyReturned ==
    probe.fn = "detectAndRemoveBibliography" /\ probe.pc = "returned"

\* C14: the bibliography strip is idempotent: applied to its own output it
\* removes nothing more (removed = false, charsSaved = 0, the same text).
C14_StripIdempotent ==
    BibliographyReturned =>
        detectAndRemoveBibliography(probe.result.text) = NotRemoved(probe.result.text)

\* The page tag at token q introduces an Appendix/Appendices heading.
IntroducesAppendix(t, q) ==
    /\ t[q].k = "tag"
    /\ \E h \in (q + 1)..(Len(t) - 1) :
          /\ \A i \in (q + 1)..(h - 1) : IsSpace(t[i])
          /\ t[h].k = "head" /\ t[h].w \in {"appendix", "appendices"}
          /\ IsSpace(t[h + 1])

\* C15: with b the first qualifying bibliography heading, if a page tag that
\* introduces an appendix heading follows, exactly the span from b up to the
\* first such tag is removed and everything from that tag onward is kept;
\* otherwise everything from b to the end of the text is removed.
C15_SpliceKeepsAppendix ==
    (BibliographyReturned /\ Candidates(probe.content, {"bib1", "bib2", "bib3"}, 6) # {}) =>
        \A b \in Candidates(probe.content, {"bib1", "bib2", "bib3"}, 6) :
            (\A c \in Candidates(probe.content, {"bib1", "bib2", "bib3"}, 6) : b <= c) =>
                /\ probe.result.removed
                /\ probe.result.charsSaved
                     = TextLength(probe.content) - TextLength(probe.result.text)
                /\ \A q \in (b + 1)..Len(probe.content) :
                      (/\ IntroducesAppendix(probe.content, q)
                       /\ \A r \in (b + 1)..(q - 1) : ~IntroducesAppendix(probe.content, r)) =>
                          probe.result.text
                            = SubSeq(probe.content, 1, b - 1)
                              \o SubSeq(probe.content, q, Len(probe.content))
                /\ (\A q \in (b + 1)..Len(probe.content) :
                        ~IntroducesAppendix(probe.content, q)) =>
                       probe.result.text = SubSeq(probe.content, 1, b - 1)

\* A reference list was spliced out in front of an appendix that was kept,
\* with body text after the appendix heading.
C15_Witness ==
    /\ BibliographyReturned
    /\ probe.result.removed
    /\ \E q \in 1..Len(probe.result.text) : IntroducesAppendix(probe.result.text, q)
    /\ \E q \in 1..Len(probe.content) :
          /\ probe.content[q].k = "head" /\ probe.content[q].w = "references"
          /\ \A r \in 1..Len(probe.result.text) : probe.result.text[r].w # "references"

\* The tokens at which a match of one of the three bibliography patterns
\* starts past 60% of the text.
BibPatterns == {"bib1", "bib2", "bib3"}
QualifyingStarts(content) ==
    {p \in 1..Len(content) :
        /\ \E pat \in BibPatterns : p \in MatchAll(content, pat, 1)
        /\ 10 * Offset(content, p) > 6 * TextLength(content)}

\* C29: only matches that start past 60% of the text count; the strip
\* starts at the smallest start offset among the qualifying matches of all
\* patterns: the text before it is kept and what follows it in the result,
\* if anything, is the page that introduces an appendix.  When no match
\* qualifies the text is returned unchanged with removed = false and
\* charsSaved = 0.
C29_StripStartsAtFirstQualifyingMatch ==
    BibliographyReturned =>
        IF QualifyingStarts(probe.content) = {}
        THEN probe.result = [text |-> probe.content, removed |-> FALSE, charsSaved |-> 0]
        ELSE \A b \in QualifyingStarts(probe.content) :
                (\A c \in QualifyingStarts(probe.content) : b <= c) =>
                    /\ probe.result.removed
                    /\ Len(probe.result.text) >= b - 1
                    /\ SubSeq(probe.result.text, 1, b - 1) = SubSeq(probe.content, 1, b - 1)
                    /\ \/ Len(probe.result.text) = b - 1
                       \/ IntroducesAppendix(probe.result.text, b)

\* A text with a heading before 60% and, past 60%, matches of two patterns
\* at different offsets; the strip removed from the first of them.
C29_Witness ==
    /\ BibliographyReturned
    /\ probe.result.removed
    /\ \E p \in MatchAll(probe.content, "bib2", 1) : p \notin QualifyingStarts(probe.content)
    /\ \E p \in QualifyingStarts(probe.content) \cap MatchAll(probe.content, "bib2", 1),
          q \in QualifyingStarts(probe.content) \cap MatchAll(probe.content, "bib1", 1) :
            /\ p < q
            /\ Len(probe.result.text) = p - 1

(***************************************************************************)
(* extractTextFromPdf: the page loop and the three reduction passes.       *)
(* A document is the sequence of its pages; a page is the text that        *)
(* content.items.map(str).join(' ') gives for it, or a page whose          *)
(* getPage / getTextContent rejects.                                       *)
(***************************************************************************)
MaxPages == 3

Page(text) == [ok |-> TRUE, text |-> text]
Unreadable == [ok |-> FALSE, text |-> <<>>]

\* No items; items of spaces only; body text (short, and long enough for the
\* ceiling to matter); a page that holds only a heading; the first page of
\* an appendix; body text that quotes a page tag.
Pages ==
    {Page(<<>>), Page(<<SP>>), Page(<<Body(30)>>),
     Page(<<Body(400000)>>), Page(<<Body(600000)>>),
     Page(<<Heading("references", 10)>>), Page(<<Heading("index", 5)>>),
     Page(<<Heading("appendix", 8), SP, Body(5)>>),
     Page(<<Body(10), SP, PageTag(2)>>),
     Unreadable}

Documents == UNION {[1..n -> Pages] : n \in 0..MaxPages}

\* pageText.trim() is the empty string
TrimsToEmpty(pageText) == \A j \in 1..Len(pageText) : IsSpace(pageText[j])

\* textContent.join('\n\n')
RECURSIVE Join(_)
Join(textContent) ==
    IF textContent = <<>> THEN <<>>
    ELSE IF Len(textContent) = 1 THEN Head(textContent)
    ELSE Head(textContent) \o <<NL, NL>> \o Join(Tail(textContent))

\* The value returned (estimatedWords is left out: body text stands for any
\* characters that are neither a tag nor a heading).
ExtractionResult(totalPages, originalChars, bib, idx, final) ==
    [text |-> final.text,
     info |-> [pages |-> totalPages,
               estimatedChars |-> TextLength(final.text),
               bibliographyRemoved |-> bib.removed,
               bibliographyCharsSaved |-> bib.charsSaved,
               indexRemoved |-> idx.removed,
               indexCharsSaved |-> idx.charsSaved,
               wasTruncated |-> final.wasTruncated,
               keptPercentage |-> final.keptPercentage,
               originalChars |-> originalChars]]

AfterIndex(totalPages, originalChars, bib, idx) ==
    ExtractionResult(totalPages, originalChars, bib, idx,
                     truncateContentSmart(idx.text, MaxChars))

AfterBibliography(totalPages, originalChars, bib) ==
    AfterIndex(totalPages, originalChars, bib, detectAndRemoveIndex(bib.text))

\* const pdf = await getDocument(...).promise; const textContent = []
OpenPdf(pdf) ==
    /\ probe = ProbeIdle
    /\ probe' = [fn |-> "extractTextFromPdf", pc |-> "page", pdf |-> pdf, i |-> 1,
                 textContent |-> <<>>]
    /\ UNCHANGED <<ctxVars, localVars, alertMsg, calls, proxy, sidebar>>

\* One turn of for (let i = 1; i <= totalPages; i++); a rejected await ends
\* the function with the exception.
ExtractPage ==
    /\ probe.fn = "extractTextFromPdf" /\ probe.pc = "page"
    /\ probe.i <= Len(probe.pdf)
    /\ probe' =
         IF ~probe.pdf[probe.i].ok
         THEN [fn |-> probe.fn, pc |-> "thrown", pdf |-> probe.pdf]
         ELSE [probe EXCEPT
                 !.i = @ + 1,
                 !.textContent =
                     IF TrimsToEmpty(probe.pdf[probe.i].text) THEN @
                     ELSE Append(@, <<PageTag(probe.i), NL>> \o probe.pdf[probe.i].text)]
    /\ UNCHANGED <<ctxVars, localVars, alertMsg, calls, proxy, sidebar>>

\* After the loop: join, strip the bibliography, strip the index, truncate.
FinishExtraction ==
    /\ probe.fn = "extractTextFromPdf" /\ probe.pc = "page"
    /\ probe.i > Len(probe.pdf)
    /\ probe' = [fn |-> probe.fn, pc |-> "returned", pdf |-> probe.pdf,
                 fullText |-> Join(probe.textContent),
                 result |-> AfterBibliography(Len(probe.pdf),
                                              TextLength(Join(probe.textContent)),
                                              detectAndRemoveBibliography(Join(probe.textContent)))]
    /\ UNCHANGED <<ctxVars, localVars, alertMsg, calls, proxy, sidebar>>

NextExtract ==
    \/ \E pdf \in Documents : OpenPdf(pdf)
    \/ ExtractPage
    \/ FinishExtraction

SpecExtract == Init /\ [][NextExtract]_vars

(***************************************************************************)
(* Properties of extractTextFromPdf (SpecExtract).                         *)
(***************************************************************************)
ExtractReturned == probe.fn = "extractTextFromPdf" /\ probe.pc = "returned"

\* C16: the text an extraction returns is never longer than fullText, the
\* joined page text before the bibliography, index and truncation passes.
C16_FinalTextNotLonger ==
    ExtractReturned => TextLength(probe.result.text) <= TextLength(probe.fullText)

\* The page numbers of the [Page k] tags of a text, in order of occurrence.
RECURSIVE TagsOf(_)
TagsOf(t) ==
    IF t = <<>> THEN <<>>
    ELSE IF Head(t).k = "tag" THEN <<Head(t).page>> \o TagsOf(Tail(t))
    ELSE TagsOf(Tail(t))

\* The pages 1..n of a document whose text is not empty after trimming.
RECURSIVE PagesWithText(_, _)
PagesWithText(pdf, n) ==
    IF n = 0 THEN <<>>
    ELSE IF TrimsToEmpty(pdf[n].text) THEN PagesWithText(pdf, n - 1)
    ELSE Append(PagesWithText(pdf, n - 1), n)

\* C19: an extraction of a document of N pages reports pages = N, and
\* fullText holds exactly one [Page k] tag for every page k whose text is not
\* empty after trimming and no other, in increasing k.
C19_OneTagPerPageWithText ==
    ExtractReturned =>
        /\ probe.result.info.pages = Len(probe.pdf)
        /\ TagsOf(probe.fullText) = PagesWithText(probe.pdf, Len(probe.pdf))

(***************************************************************************)
(* Properties of the upload (Spec).                                        *)
(***************************************************************************)
\* C17 as stated: when the extraction of an upload throws, bookContent,
\* extractionInfo and fileName are what they were when the upload started.
C17_FailureLeavesValuesOfStart ==
    [][\A c \in InFlight :
          \/ ~Settles(c)
          \/ ~ExtractDone(c, FALSE)
          \/ /\ bookContent' = c.from.bookContent
             /\ extractionInfo' = c.from.extractionInfo
             /\ fileName' = c.from.fileName]_vars

\* C17: an upload whose extraction throws stores nothing: bookContent,
\* extractionInfo and fileName are after the failure what they were just
\* before it, and the component that started the upload, if it is still
\* mounted, shows the one error and is no longer extracting.
C17_FailureStoresNothing ==
    [][\A c \in InFlight :
          \/ ~Settles(c)
          \/ ~ExtractDone(c, FALSE)
          \/ /\ UNCHANGED <<bookContent, extractionInfo, fileName>>
             /\ c.mounted => (error' = "Failed to extract text from PDF" /\ ~isExtracting')]_vars

\* A failed extraction is on screen and no book is stored.
C17_Witness ==
    /\ currentStep = 2
    /\ error = "Failed to extract text from PDF"
    /\ ~isExtracting
    /\ bookContent = NULL /\ extractionInfo = NULL /\ fileName = NULL

\* C18: a file whose name does not end in .pdf (in any letter case) or whose
\* size is above 100 MB is turned away at once: no extraction is started for
\* it, an error is shown, and bookContent, extractionInfo and fileName are
\* unchanged.
C18_RejectedBeforeExtraction ==
    [][\A file \in UploadFiles :
          \/ ~handleFile(file)
          \/ IsPdfName(file.name) /\ file.size <= 100 * 1024 * 1024
          \/ /\ calls' = calls
             /\ ~isExtracting'
             /\ Truthy(error')
             /\ UNCHANGED <<bookContent, extractionInfo, fileName>>]_vars

\* A rejection is on screen, nothing is being extracted and no book is stored.
C18_Witness ==
    /\ currentStep = 2
    /\ error \in {"Please upload a PDF file", "File is too large"}
    /\ ~isExtracting
    /\ \A c \in InFlight : c.kind # "extract"
    /\ bookContent = NULL

(***************************************************************************)
(* The inline parser of the docx converter.  A line is a sequence of       *)
(* characters (it holds no line break: the converter splits the markdown    *)
(* into lines first); a run is the text of a TextRun with its styles.       *)
(* Two versions are in the sources: the one that takes the inherited        *)
(* styles and calls itself on what a marker encloses, and the one of        *)
(* lib/export.ts, which takes the line only.                                *)
(***************************************************************************)
NoStyles ==
    [bold |-> FALSE, italics |-> FALSE, underline |-> FALSE,
     superScript |-> FALSE, subScript |-> FALSE]

\* new TextRun({ text, ...styles })
TextRun(text, styles) ==
    [text |-> text, bold |-> styles.bold, italics |-> styles.italics,
     underline |-> styles.underline, superScript |-> styles.superScript,
     subScript |-> styles.subScript]

HasPrefix(s, p) == Len(s) >= Len(p) /\ SubSeq(s, 1, Len(p)) = p

\* /^open(.+?)close/ on s: the length of the group, the least k >= 1 with
\* close right after open and k characters; 0 when there is no match.
Lazy(s, open, close) ==
    IF /\ HasPrefix(s, open)
       /\ \E k \in 1..(Len(s) - Len(open) - Len(close)) :
            SubSeq(s, Len(open) + k + 1, Len(open) + k + Len(close)) = close
    THEN CHOOSE k \in 1..(Len(s) - Len(open) - Len(close)) :
            /\ SubSeq(s, Len(open) + k + 1, Len(open) + k + Len(close)) = close
            /\ \A j \in 1..(k - 1) :
                 SubSeq(s, Len(open) + j + 1, Len(open) + j + Len(close)) # close
    ELSE 0

\* /^x([^x]+?)x/ on s, with guarded = TRUE /^x(?!x)([^x]+?)x(?!x)/: the
\* length of the group, which ends at the first x after the opening one;
\* 0 when there is no match.
Single(s, x, guarded) ==
    IF /\ Len(s) >= 3 /\ s[1] = x /\ s[2] # x
       /\ \E j \in 3..Len(s) : s[j] = x
    THEN IF guarded /\ \E j \in 3..(Len(s) - 1) :
                          /\ s[j] = x /\ s[j + 1] = x
                          /\ \A i \in 3..(j - 1) : s[i] # x
         THEN 0
         ELSE (CHOOSE j \in 3..Len(s) : s[j] = x /\ \A i \in 3..(j - 1) : s[i] # x) - 2
    ELSE 0

\* remaining.search(/\*|_|<[su]|[\^~]/i), counted from 1; 0 for -1.
NextMarker(s) ==
    IF \E j \in 1..Len(s) :
          \/ s[j] \in {"*", "_", "^", "~"}
          \/ s[j] = "<" /\ j < Len(s) /\ s[j + 1] \in {"s", "u", "S", "U"}
    THEN CHOOSE j \in 1..Len(s) :
          /\ \/ s[j] \in {"*", "_", "^", "~"}
             \/ s[j] = "<" /\ j < Len(s) /\ s[j + 1] \in {"s", "u", "S", "U"}
          /\ \A i \in 1..(j - 1) :
                ~ \/ s[i] \in {"*", "_", "^", "~"}
                  \/ s[i] = "<" /\ s[i + 1] \in {"s", "u", "S", "U"}
    ELSE 0

\* remaining.search(/\*|_/) of lib/export.ts
NextMarkerFlat(s) ==
    IF \E j \in 1..Len(s) : s[j] \in {"*", "_"}
    THEN CHOOSE j \in 1..Len(s) :
            s[j] \in {"*", "_"} /\ \A i \in 1..(j - 1) : s[i] \notin {"*", "_"}
    ELSE 0

\* The version with inherited styles.  ParseRemaining is the while loop from
\* a value of remaining on; Enclosed is a branch that parses what the marker
\* encloses (group k characters long between an opening of o and a closing
\* of c characters) with the styles added; Scripted is a branch that pushes
\* the group as one run.
RECURSIVE parseInlineFormatting(_, _), ParseRemaining(_, _)
Enclosed(r, o, k, c, inner, styles) ==
    parseInlineFormatting(SubSeq(r, o + 1, o + k), inner)
    \o ParseRemaining(SubSeq(r, o + k + c + 1, Len(r)), styles)

Scripted(r, o, k, c, inner, styles) ==
    <<TextRun(SubSeq(r, o + 1, o + k), inner)>>
    \o ParseRemaining(SubSeq(r, o + k + c + 1, Len(r)), styles)

ParseRemaining(r, styles) ==
    IF r = <<>> THEN <<>>
    ELSE IF Lazy(r, <<"*", "*", "*">>, <<"*", "*", "*">>) > 0
    THEN Enclosed(r, 3, Lazy(r, <<"*", "*", "*">>, <<"*", "*", "*">>), 3,
                  [styles EXCEPT !.bold = TRUE, !.italics = TRUE], styles)
    ELSE IF Lazy(r, <<"_", "_", "_">>, <<"_", "_", "_">>) > 0
    THEN Enclosed(r, 3, Lazy(r, <<"_", "_", "_">>, <<"_", "_", "_">>), 3,
                  [styles EXCEPT !.bold = TRUE, !.italics = TRUE], styles)
    ELSE IF Lazy(r, <<"*", "*">>, <<"*", "*">>) > 0
    THEN Enclosed(r, 2, Lazy(r, <<"*", "*">>, <<"*", "*">>), 2,
                  [styles EXCEPT !.bold = TRUE], styles)
    ELSE IF Lazy(r, <<"_", "_">>, <<"_", "_">>) > 0
    THEN Enclosed(r, 2, Lazy(r, <<"_", "_">>, <<"_", "_">>), 2,
                  [styles EXCEPT !.bold = TRUE], styles)
    ELSE IF Single(r, "*", TRUE) > 0
    THEN Enclosed(r, 1, Single(r, "*", TRUE), 1, [styles EXCEPT !.italics = TRUE], styles)
    ELSE IF Single(r, "_", TRUE) > 0
    THEN Enclosed(r, 1, Single(r, "_", TRUE), 1, [styles EXCEPT !.italics = TRUE], styles)
    ELSE IF Lazy(r, <<"<", "u", ">">>, <<"<", "/", "u", ">">>) > 0
    THEN Enclosed(r, 3, Lazy(r, <<"<", "u", ">">>, <<"<", "/", "u", ">">>), 4,
                  [styles EXCEPT !.underline = TRUE], styles)
    ELSE IF Lazy(r, <<"<", "s", "u", "p", ">">>, <<"<", "/", "s", "u", "p", ">">>) > 0
    THEN Scripted(r, 5, Lazy(r, <<"<", "s", "u", "p", ">">>, <<"<", "/", "s", "u", "p", ">">>), 6,
                  [styles EXCEPT !.superScript = TRUE], styles)
    ELSE IF Single(r, "^", FALSE) > 0
    THEN Scripted(r, 1, Single(r, "^", FALSE), 1, [styles EXCEPT !.superScript = TRUE], styles)
    ELSE IF Lazy(r, <<"<", "s", "u", "b", ">">>, <<"<", "/", "s", "u", "b", ">">>) > 0
    THEN Scripted(r, 5, Lazy(r, <<"<", "s", "u", "b", ">">>, <<"<", "/", "s", "u", "b", ">">>), 6,
                  [styles EXCEPT !.subScript = TRUE], styles)
    ELSE IF Single(r, "~", TRUE) > 0
    THEN Scripted(r, 1, Single(r, "~", TRUE), 1, [styles EXCEPT !.subScript = TRUE], styles)
    ELSE IF NextMarker(r) = 0 THEN <<TextRun(r, styles)>>
    ELSE IF NextMarker(r) = 1
    THEN <<TextRun(<<r[1]>>, styles)>> \o ParseRemaining(Tail(r), styles)
    ELSE <<TextRun(SubSeq(r, 1, NextMarker(r) - 1), styles)>>
         \o ParseRemaining(SubSeq(r, NextMarker(r), Len(r)), styles)

\* return runs.length > 0 ? runs : [new TextRun({ text, ...inheritedStyles })]
parseInlineFormatting(text, inheritedStyles) ==
    IF ParseRemaining(text, inheritedStyles) # <<>>
    THEN ParseRemaining(text, inheritedStyles)
    ELSE <<TextRun(text, inheritedStyles)>>

\* The version of lib/export.ts: a match is pushed as one run, bold or
\* italic, and nothing is inherited.
RECURSIVE ParseRemainingFlat(_)
MatchedFlat(r, o, k, c, styles) ==
    <<TextRun(SubSeq(r, o + 1, o + k), styles)>>
    \o ParseRemainingFlat(SubSeq(r, o + k + c + 1, Len(r)))

ParseRemainingFlat(r) ==
    IF r = <<>> THEN <<>>
    ELSE IF Lazy(r, <<"*", "*">>, <<"*", "*">>) > 0
    THEN MatchedFlat(r, 2, Lazy(r, <<"*", "*">>, <<"*", "*">>), 2, [NoStyles EXCEPT !.bold = TRUE])
    ELSE IF Lazy(r, <<"_", "_">>, <<"_", "_">>) > 0
    THEN MatchedFlat(r, 2, Lazy(r, <<"_", "_">>, <<"_", "_">>), 2, [NoStyles EXCEPT !.bold = TRUE])
    ELSE IF Single(r, "*", FALSE) > 0
    THEN MatchedFlat(r, 1, Single(r, "*", FALSE), 1, [NoStyles EXCEPT !.italics = TRUE])
    ELSE IF Single(r, "_", FALSE) > 0
    THEN MatchedFlat(r, 1, Single(r, "_", FALSE), 1, [NoStyles EXCEPT !.italics = TRUE])
    ELSE IF NextMarkerFlat(r) = 0 THEN <<TextRun(r, NoStyles)>>
    ELSE IF NextMarkerFlat(r) = 1
    THEN <<TextRun(<<r[1]>>, NoStyles)>> \o ParseRemainingFlat(Tail(r))
    ELSE <<TextRun(SubSeq(r, 1, NextMarkerFlat(r) - 1), NoStyles)>>
         \o ParseRemainingFlat(SubSeq(r, NextMarkerFlat(r), Len(r)))

parseInlineFormattingFlat(text) ==
    IF ParseRemainingFlat(text) # <<>> THEN ParseRemainingFlat(text)
    ELSE <<TextRun(text, NoStyles)>>

\* Lines: "a ", an inner span around "b", " c", with an
\* outer span around the three; the opening and the closing of a span are
\* any two markers, alike or not.
Openers ==
    {<<>>, <<"*">>, <<"*", "*">>, <<"*", "*", "*">>, <<"_">>, <<"_", "_">>,
     <<"_", "_", "_">>, <<"^">>, <<"~">>, <<"<", "u", ">">>,
     <<"<", "s", "u", "p", ">">>, <<"<", "s", "u", "b", ">">>}
Closers ==
    {<<>>, <<"*">>, <<"*", "*">>, <<"*", "*", "*">>, <<"_">>, <<"_", "_">>,
     <<"_", "_", "_">>, <<"^">>, <<"~">>, <<"<", "/", "u", ">">>,
     <<"<", "/", "s", "u", "p", ">">>, <<"<", "/", "s", "u", "b", ">">>}
OuterMarks == {<<>>, <<"*">>, <<"*", "*">>, <<"*", "*", "*">>, <<"_">>, <<"_", "_">>}

Span(open, text, close) == open \o text \o close

Lines ==
    {Span(o, <<"a", " ">> \o Span(i, <<"b">>, j) \o <<" ", "c">>, c) :
        o \in OuterMarks, c \in OuterMarks, i \in Openers, j \in Closers}

Versions == {"inherited", "flat"}

\* createDocxFromMarkdown: parseInlineFormatting(line)
CallInline(version, text) ==
    /\ probe = ProbeIdle
    /\ probe' = [fn |-> "parseInlineFormatting", pc |-> "called",
                 version |-> version, text |-> text]
    /\ UNCHANGED <<ctxVars, localVars, alertMsg, calls, proxy, sidebar>>

ReturnInline ==
    /\ probe.fn = "parseInlineFormatting" /\ probe.pc = "called"
    /\ probe' = [fn |-> probe.fn, pc |-> "returned", version |-> probe.version,
                 text |-> probe.text,
                 result |-> IF probe.version = "inherited"
                            THEN parseInlineFormatting(probe.text, NoStyles)
                            ELSE parseInlineFormattingFlat(probe.text)]
    /\ UNCHANGED <<ctxVars, localVars, alertMsg, calls, proxy, sidebar>>

NextInline ==
    \/ \E version \in Versions : \E text \in Lines : CallInline(version, text)
    \/ ReturnInline

SpecInline == Init /\ [][NextInline]_vars

(***************************************************************************)
(* Properties of the inline parser (SpecInline).                           *)
(***************************************************************************)
InlineReturned == probe.fn = "parseInlineFormatting" /\ probe.pc = "returned"

\* Bold text that contains an italic span: **a *b* c**, and the same with
\* __ for bold or _ for italic.
NestedEmphasis ==
    {Span(o, <<"a", " ">> \o Span(i, <<"b">>, i) \o <<" ", "c">>, o) :
        o \in {<<"*", "*">>, <<"_", "_">>}, i \in {<<"*">>, <<"_">>}}

\* C20: for bold text that contains an italic span, such as **a *b* c**, the
\* inline parser of the docx converter returns three runs in the order of the
\* input, the middle one bold and italic and the two outer ones bold only.
C20_NestedRunsInheritBold ==
    (InlineReturned /\ probe.text \in NestedEmphasis) =>
        probe.result =
            <<TextRun(<<"a", " ">>, [NoStyles EXCEPT !.bold = TRUE]),
              TextRun(<<"b">>, [NoStyles EXCEPT !.bold = TRUE, !.italics = TRUE]),
              TextRun(<<" ", "c">>, [NoStyles EXCEPT !.bold = TRUE])>>

(***************************************************************************)
(* Properties of the session as a whole (Spec).                            *)
(***************************************************************************)
\* C22: in every reachable state the current step is one the session may be
\* on: canProceedToStep(currentStep) holds, also while a validation, an
\* extraction or an AI call started on an earlier step is in flight.
C22_StepAllowed == canProceedToStep(currentStep)

\* C24: a plan or a generated appendix is there only while a book is: in
\* every reachable state a non-null planningData or a non-empty
\* generatedAppendices implies a non-null bookContent.
C24_PlanBelongsToBook ==
    (planningData # NullPlan \/ generatedAppendices # EmptyMap) => bookContent # NULL

\* The session holds what resetAll leaves.
SessionIsReset ==
    /\ currentStep = 1 /\ apiKey = NULL /\ ~apiKeyValid /\ detectedTier = NULL
    /\ bookContent = NULL /\ extractionInfo = NULL /\ fileName = NULL
    /\ planningData = NullPlan /\ ~isAnalyzing /\ generatedAppendices = EmptyMap
    /\ forecastYears = JNum(DefaultForecastYears)
    /\ wordCountOption = JStr(DefaultWordCountOption)

\* C25: after resetAll the session stays as the reset left it until the user
\* starts something: a call that is still in flight then (an AI call needs a
\* key, so it was issued before the reset) stores nothing into planningData
\* or generatedAppendices when its response arrives.
C25_ResetDropsPendingResponses ==
    [][\A c \in InFlight :
          (SessionIsReset /\ Settles(c) /\ c.kind \in {"analyze", "apply", "generate"})
              => UNCHANGED <<planningData, generatedAppendices>>]_vars


(***************************************************************************)
(* Project management of the provider and the File menu of the sidebar.    *)
(* Spec follows the wizard and leaves `sidebar` at SidebarIdle: there a    *)
(* New Project or a load is one step.  SpecSidebar follows the menu, its   *)
(* confirmation dialog, the file picker and lastSavedStateRef.             *)
(***************************************************************************)
hasProjectData ==
    \/ apiKeyValid
    \/ bookContent # NULL
    \/ planningData # NullPlan
    \/ DOMAIN generatedAppendices # {}

\* The first 100 characters of each book.
HeadOfBook == [b \in Books |-> IF b = "b1" THEN "b1[0..100)" ELSE "b2[0..100)"]

\* content?.substring(0, 100): undefined for null and undefined, and
\* JSON.stringify leaves an undefined member out.
Substring100(content) == IF content \in {NULL, UNDEF} THEN UNDEF ELSE HeadOfBook[content]

\* The object of which JSON.stringify makes the snapshot string.
Snapshot(name, content, plan, appendices, years, option) ==
    [fileName |-> name, bookContent |-> Substring100(content), planningData |-> plan,
     generatedAppendices |-> appendices, forecastYears |-> years,
     wordCountOption |-> option]

getStateSnapshot ==
    Snapshot(fileName, bookContent, planningData, generatedAppendices,
             forecastYears, wordCountOption)

\* hasUnsavedChanges() against the value r of lastSavedStateRef.
UnsavedAgainst(r) ==
    IF ~hasProjectData THEN FALSE
    ELSE IF r = <<>> THEN TRUE
    ELSE getStateSnapshot # r[1]

hasUnsavedChanges == UnsavedAgainst(sidebar.lastSavedState)

\* getProjectData(), without savedAt (the clock).
getProjectData ==
    [version |-> "1.0", apiKey |-> apiKey, fileName |-> fileName,
     bookContent |-> bookContent, extractionInfo |-> extractionInfo,
     planningData |-> planningData, generatedAppendices |-> generatedAppendices,
     forecastYears |-> forecastYears, wordCountOption |-> wordCountOption,
     currentStep |-> currentStep]

\* What the timer of loadProjectData(data) stores.
LoadedSnapshot(data) ==
    Snapshot(data.fileName, data.bookContent, data.planningData,
             IF data.genAbsent THEN EmptyMap ELSE data.generatedAppendices,
             JOr(data.forecastYears, JNum(DefaultForecastYears)),
             JOr(data.wordCountOption, JStr(DefaultWordCountOption)))

\* The sidebar after handleSaveProject: the file is downloaded, then
\* markAsSaved().
Saved(sb) ==
    [sb EXCEPT !.download = <<getProjectData>>, !.lastSavedState = <<getStateSnapshot>>]

\* The menu and the dialog's buttons take a click.
MenuFree == UIFree
DialogFree == sidebar.showConfirmDialog /\ ~AlertOpen /\ sidebar.timer = <<>>

\* The sidebar's handleNewProject.
NewProjectClick ==
    /\ MenuFree
    /\ IF hasUnsavedChanges \/ hasProjectData
       THEN /\ sidebar' = [sidebar EXCEPT !.pendingAction = "new",
                                          !.showConfirmDialog = TRUE]
            /\ UNCHANGED <<ctxVars, localVars, calls>>
       ELSE /\ resetAll
            /\ sidebar' = [sidebar EXCEPT !.lastSavedState = <<>>]
    /\ UNCHANGED <<alertMsg, proxy, probe>>

\* The Save Project button is disabled without project data.
handleSaveProject ==
    /\ MenuFree
    /\ hasProjectData
    /\ sidebar' = Saved(sidebar)
    /\ UNCHANGED <<ctxVars, localVars, alertMsg, calls, proxy, probe>>

handleLoadClick ==
    /\ MenuFree
    /\ sidebar' = IF hasUnsavedChanges
                  THEN [sidebar EXCEPT !.pendingAction = "load",
                                       !.showConfirmDialog = TRUE]
                  ELSE [sidebar EXCEPT !.picker = TRUE]
    /\ UNCHANGED <<ctxVars, localVars, alertMsg, calls, proxy, probe>>

\* The sidebar's loadFile(file), leaving the sidebar as sb.
LoadInto(file, sb) ==
    IF ~file.json
    THEN /\ alertMsg' = "Failed to load project file. Please check the file format."
         /\ sidebar' = sb
         /\ UNCHANGED <<ctxVars, localVars, calls>>
    ELSE IF ~HasVersion(file)
    THEN /\ alertMsg' = "Invalid project file format: missing version"
         /\ sidebar' = sb
         /\ UNCHANGED <<ctxVars, localVars, calls>>
    ELSE /\ loadProjectData(file)
         /\ sidebar' = [sb EXCEPT !.timer = <<LoadedSnapshot(file)>>]
         /\ UNCHANGED alertMsg

\* The picker closes with a file chosen.
handleFileSelect(file) ==
    /\ sidebar.picker /\ ~AlertOpen
    /\ IF hasUnsavedChanges /\ sidebar.pendingAction # "load"
       THEN /\ sidebar' = [sidebar EXCEPT !.picker = FALSE, !.pendingFile = <<file>>,
                                          !.pendingAction = "load",
                                          !.showConfirmDialog = TRUE]
            /\ UNCHANGED <<ctxVars, localVars, alertMsg, calls>>
       ELSE LoadInto(file, [sidebar EXCEPT !.picker = FALSE])
    /\ UNCHANGED <<proxy, probe>>

\* The picker closes without a file: no change event.
PickerCancel ==
    /\ sidebar.picker /\ ~AlertOpen
    /\ sidebar' = [sidebar EXCEPT !.picker = FALSE]
    /\ UNCHANGED <<ctxVars, localVars, alertMsg, calls, proxy, probe>>

\* proceedWithAction() on the sidebar sb.
proceedWithAction(sb) ==
    IF sb.pendingAction = "new"
    THEN /\ resetAll
         /\ sidebar' = [sb EXCEPT !.showConfirmDialog = FALSE, !.pendingAction = NULL,
                                  !.lastSavedState = <<>>]
         /\ UNCHANGED alertMsg
    ELSE IF sb.pendingAction = "load" /\ sb.pendingFile # <<>>
    THEN LoadInto(sb.pendingFile[1],
                  [sb EXCEPT !.showConfirmDialog = FALSE, !.pendingAction = NULL,
                             !.pendingFile = <<>>])
    ELSE /\ sidebar' = [sb EXCEPT !.showConfirmDialog = FALSE, !.pendingAction = NULL,
                                  !.picker = (sb.pendingAction = "load")]
         /\ UNCHANGED <<ctxVars, localVars, alertMsg, calls>>

\* Save & Continue is rendered while there are unsaved changes.
handleConfirmSaveAndProceed ==
    /\ DialogFree
    /\ hasUnsavedChanges
    /\ proceedWithAction(Saved(sidebar))
    /\ UNCHANGED <<proxy, probe>>

\* Discard Changes, or Continue when nothing is unsaved.
handleConfirmDiscard ==
    /\ DialogFree
    /\ proceedWithAction(sidebar)
    /\ UNCHANGED <<proxy, probe>>

handleConfirmCancel ==
    /\ DialogFree
    /\ sidebar' = [sidebar EXCEPT !.showConfirmDialog = FALSE, !.pendingAction = NULL,
                                  !.pendingFile = <<>>]
    /\ UNCHANGED <<ctxVars, localVars, alertMsg, calls, proxy, probe>>

\* <Dialog onOpenChange={setShowConfirmDialog}>: Escape or a click outside.
DialogOpenChange ==
    /\ DialogFree
    /\ sidebar' = [sidebar EXCEPT !.showConfirmDialog = FALSE]
    /\ UNCHANGED <<ctxVars, localVars, alertMsg, calls, proxy, probe>>

\* The setTimeout(..., 0) callback of loadProjectData.
LoadTimer ==
    /\ sidebar.timer # <<>> /\ ~AlertOpen
    /\ sidebar' = [sidebar EXCEPT !.lastSavedState = sidebar.timer, !.timer = <<>>]
    /\ UNCHANGED <<ctxVars, localVars, alertMsg, calls, proxy, probe>>

SidebarKeys == {"k1", "k2"}
KeyedFile == [FullFile EXCEPT !.apiKey = "k2"]
SidebarFiles == {KeyedFile, [KeyedFile EXCEPT !.json = FALSE]}
SidebarUploads == {f \in UploadFiles : f.size = BytesPerMB * 3}
SidebarValidations == {r \in ValidationResults : r.tier # "paid" /\ ~r.threw}

\* The calls the session of SpecSidebar has in flight at a time.
MaxPending == 1

FileMenu ==
    \/ NewProjectClick
    \/ handleSaveProject
    \/ handleLoadClick
    \/ \E f \in SidebarFiles : handleFileSelect(f)
    \/ PickerCancel
    \/ handleConfirmSaveAndProceed
    \/ handleConfirmDiscard
    \/ handleConfirmCancel
    \/ DialogOpenChange
    \/ LoadTimer
    \/ DismissAlert

NextSidebar ==
    \/ FileMenu
    \/ \E k \in SidebarKeys : SetInputKey(k)
    \/ NumInFlight < MaxPending /\ handleValidate
    \/ handleContinueApi
    \/ \E n \in 1..4 : handleStepClick(n)
    \/ \E f \in SidebarUploads : NumInFlight < MaxPending /\ handleFile(f)
    \/ \E c \in InFlight, r \in SidebarValidations : ~AlertOpen /\ ValidateDone(c, r)
    \/ \E c \in InFlight, ok \in BOOLEAN : ~AlertOpen /\ ExtractDone(c, ok)

SpecSidebar == Init /\ [][NextSidebar]_vars


(***************************************************************************)
(* Properties of the File menu (SpecSidebar).                              *)
(***************************************************************************)
\* C21: the API key is used for the current session only: a project file
\* that Save Project downloads holds no key, so that the file is the same
\* for two sessions that differ in the key alone.
C21_SavedFileHoldsNoKey ==
    \A i \in DOMAIN sidebar.download : ~Truthy(sidebar.download[i].apiKey)

\* C23: apiKeyValid holds only of a key that a successful validation
\* accepted: a step that ends with apiKeyValid true, and that made it true
\* or changed the stored apiKey, is the success of a validation of the key
\* now stored.  A key that a project file brings in is not valid before it
\* has been validated itself.
C23_ValidKeyWasValidated ==
    [][(apiKeyValid' /\ (~apiKeyValid \/ apiKey' # apiKey))
          => \E c \in InFlight : c.kind = "validate" /\ c.arg = apiKey' /\ Settles(c)]_vars

\* The fields getProjectData writes into the project file.
SavedFields ==
    <<apiKey, fileName, bookContent, extractionInfo, planningData,
      generatedAppendices, forecastYears, wordCountOption>>

\* Nothing is unsaved and the session has been saved or loaded.
SessionClean ==
    /\ ~hasUnsavedChanges
    /\ sidebar.lastSavedState # <<>>
    /\ sidebar.timer = <<>>

\* C26: hasUnsavedChanges() is false right after Save Project, and once the
\* session is clean (saved, or loaded with the load completed) a step that
\* is no save, load or reset and changes a field that getProjectData writes
\* makes hasUnsavedChanges() true.
C26_SavedFieldChangeIsUnsaved ==
    [][/\ (sidebar'.download # sidebar.download /\ UNCHANGED ctxVars)
              => ~hasUnsavedChanges'
       /\ (/\ SessionClean
           /\ sidebar'.lastSavedState = sidebar.lastSavedState
           /\ sidebar'.timer = <<>>
           /\ SavedFields' # SavedFields)
              => hasUnsavedChanges']_vars

\* handleFileSelect puts its file aside and shows the confirmation dialog.
AsksOnSelect == hasUnsavedChanges /\ sidebar.pendingAction # "load"

\* C28: a load that replaces unsaved changes is confirmed once: when a
\* button of the load confirmation has opened the file picker, the file
\* then selected is loaded without the dialog being shown again.
C28_ConfirmedLoadNotAskedAgain ==
    [][(/\ sidebar.showConfirmDialog /\ sidebar.pendingAction = "load"
        /\ ~sidebar.picker /\ sidebar'.picker)
          => ~AsksOnSelect']_vars


(***************************************************************************)
(* parseJsonResponse on its own: responses of up to MaxTokens tokens.      *)
(***************************************************************************)
MaxTokens == 3
ResponseTokens ==
    {TFenceJson, TFence, TText, TWs, TJson(NullPlan)} \cup {TJson(p) : p \in AIPlans}
ParseInputs == UNION {[1..n -> ResponseTokens] : n \in 0..MaxTokens}

CallParse(response) ==
    /\ probe = ProbeIdle
    /\ probe' = [fn |-> "parseJsonResponse", pc |-> "called", response |-> response]
    /\ UNCHANGED <<ctxVars, localVars, alertMsg, calls, proxy, sidebar>>

ReturnParse ==
    /\ probe.fn = "parseJsonResponse" /\ probe.pc = "called"
    /\ probe' = [fn |-> probe.fn, pc |-> "returned", response |-> probe.response,
                 result |-> parseJsonResponse(probe.response)]
    /\ UNCHANGED <<ctxVars, localVars, alertMsg, calls, proxy, sidebar>>

NextParse ==
    \/ \E response \in ParseInputs : CallParse(response)
    \/ ReturnParse

SpecParse == Init /\ [][NextParse]_vars

(***************************************************************************)
(* Properties of parseJsonResponse (SpecParse).                            *)
(***************************************************************************)
ParseReturned == probe.fn = "parseJsonResponse" /\ probe.pc = "returned"

\* The text is one JSON value with white space around it at most.
IsJsonText(s) == \E i \in 1..Len(s) : s[i].k = "json" /\ \A j \in 1..Len(s) : j # i => s[j].k = "ws"
ValueOf(s) == s[CHOOSE i \in 1..Len(s) : s[i].k = "json"].v
ObjectTexts(s) == {i \in 1..Len(s) : s[i].k = "json" /\ s[i].v.t = "plan"}

\* C30 as stated: the fences are stripped and the strict parse of the whole
\* remaining string is returned; only when that parse fails, the first
\* top-level {...} span is extracted, parsed and returned; without such a
\* span the call throws.
C30_FallbackParsesFirstObject ==
    ParseReturned =>
        IF IsJsonText(StripFences(probe.response))
        THEN probe.result = ParseOk(ValueOf(StripFences(probe.response)))
        ELSE IF ObjectTexts(StripFences(probe.response)) # {}
        THEN \A i \in ObjectTexts(StripFences(probe.response)) :
                (\A j \in ObjectTexts(StripFences(probe.response)) : i <= j) =>
                    probe.result = ParseOk(StripFences(probe.response)[i].v)
        ELSE ~probe.result.ok

\* C30, amended: the fences are stripped and the strict parse of the whole
\* remaining string is returned; only when that parse fails, the span from
\* the first { to the last } of the remaining string is parsed: its value is
\* returned when the span is one object and the call throws when the string
\* holds two objects or more, or no brace at all.
C30_FallbackParsesFirstToLastBrace ==
    ParseReturned =>
        IF IsJsonText(StripFences(probe.response))
        THEN probe.result = ParseOk(ValueOf(StripFences(probe.response)))
        ELSE IF Cardinality(ObjectTexts(StripFences(probe.response))) = 1
        THEN \A i \in ObjectTexts(StripFences(probe.response)) :
                probe.result = ParseOk(StripFences(probe.response)[i].v)
        ELSE /\ ~probe.result.ok
             /\ probe.result.error =
                   IF ObjectTexts(StripFences(probe.response)) = {}
                   THEN "Could not find valid JSON in response"
                   ELSE "Could not parse JSON response from AI"

\* The strict parse failed on an object with prose in front of it and the
\* object was returned.
C30_Witness ==
    /\ ParseReturned
    /\ probe.result.ok
    /\ ~IsJsonText(StripFences(probe.response))
    /\ probe.response[1].k = "text"
    /\ probe.result.value = Plan(Groups)


(***************************************************************************)
(* The wizard with calls that settle.  Every pending call returns or       *)
(* throws in the end: each kind of continuation is taken when it stays     *)
(* possible.  The user is not obliged to do anything.                      *)
(***************************************************************************)
\* What the try block of handleAnalyze / handleApplyChanges comes to for
\* each answer to a call made without a signal.
PlanOutcomes ==
    {PlanFromCall(Call("analyze", "", NullPlan, "none"), a) : a \in PlanAnswers}

ValidateSettled == \E c \in InFlight, r \in ValidationResults : ~AlertOpen /\ ValidateDone(c, r)
ExtractSettled == \E c \in InFlight, ok \in BOOLEAN : ~AlertOpen /\ ExtractDone(c, ok)
AnalyzeSettled ==
    \E c \in InFlight, res \in PlanOutcomes :
        ~AlertOpen /\ c.kind = "analyze" /\ AnalyzeSettles(c, res)
ApplySettled ==
    \E c \in InFlight, res \in PlanOutcomes :
        ~AlertOpen /\ c.kind = "apply" /\ ApplySettles(c, res)
GenerateSettled == \E c \in InFlight, a \in TextAnswers : ~AlertOpen /\ GenerateDone(c, a)

NextLive ==
    \/ Wizard
    \/ handleAnalyze("none")
    \/ handleApplyChanges("none")
    \/ \E g \in Groups : handleGenerate(g, "none")
    \/ HeaderNewProject
    \/ ValidateSettled
    \/ ExtractSettled
    \/ AnalyzeSettled
    \/ ApplySettled
    \/ GenerateSettled

CallsSettle ==
    /\ WF_vars(ValidateSettled)
    /\ WF_vars(ExtractSettled)
    /\ WF_vars(AnalyzeSettled)
    /\ WF_vars(ApplySettled)
    /\ WF_vars(GenerateSettled)

SpecLive == Init /\ [][NextLive]_vars /\ CallsSettle

(***************************************************************************)
(* Properties of the in-progress flags (SpecLive).                         *)
(***************************************************************************)
\* C27: every started extraction, analysis, change request and generation
\* clears its in-progress flag in the end, whether the call returns or
\* throws: no flag stays set forever.
C27_FlagsEventuallyClear ==
    /\ isExtracting ~> ~isExtracting
    /\ isAnalyzing ~> ~isAnalyzing
    /\ isApplyingChanges ~> ~isApplyingChanges
    /\ (isGenerating # NULL) ~> (isGenerating = NULL)

\* A call of the mounted step has thrown, its message is shown and its flag
\* is cleared with no call left in flight.
C27_Witness ==
    /\ error \in AIErrors
    /\ currentStep \in {3, 4}
    /\ ~isAnalyzing /\ ~isApplyingChanges /\ isGenerating = NULL
    /\ NumInFlight = 0

====
